---------------------------- MODULE Spec2Model ----------------------------
(***************************************************************************)
(* Transcript normalization engine of the meeting plugin:                  *)
(*   src/src/transcript/detector.ts        TranscriptDetector              *)
(*   src/unnamed/part_003                   TeamsDirectPasteCleaner        *)
(*   src/src/transcript/cleaner-downloaded.ts  TeamsDownloadedCleaner      *)
(*   src/src/transcript/cleaner-docx.ts     TeamsDocxCleaner               *)
(*   src/src/transcript/cleaner-simple.ts   SimpleTranscriptCleaner        *)
(*                                                                         *)
(* A text is a sequence of characters (one-character strings).  Every      *)
(* regular expression of the source is written as a term of a small regex  *)
(* algebra and matched character by character.                             *)
(***************************************************************************)
EXTENDS Integers, Sequences, FiniteSets, TLC

(***************************************************************************)
(* Bounds of the model.                                                    *)
(***************************************************************************)
\* the input of a call is made of at most MaxChunks pieces of Vocab
MaxChunks == 3
\* at most MaxCalls calls are made one after another on the same instances
MaxCalls == 3
\* a conversation has at most MaxTurns turns
MaxTurns == 2
\* a text given to canHandle alone has at most MaxProbeLines lines
MaxProbeLines == 2
\* a meeting note is made of at most MaxSections pieces
MaxSections == 2
\* a text given to the Simple cleaner alone has at most MaxSimpleLines lines
MaxSimpleLines == 2
\* a text given to a single call that is followed to its return has at most
\* MaxRunChunks pieces
MaxRunChunks == 2
\* processMeeting is invoked at most MaxInvocations times
MaxInvocations == 3

(***************************************************************************)
(* Characters and strings.                                                 *)
(***************************************************************************)
Min(S) == CHOOSE x \in S : \A y \in S : x <= y
Max(S) == CHOOSE x \in S : \A y \in S : x >= y

\* the value JavaScript calls null / undefined; no string equals it
NULL == <<"null">>

\* the characters String.prototype.trim removes and \s matches
WS == {" ", "\t", "\n", "\r"}
Digit == {"0", "1", "2", "3", "4", "5", "6", "7", "8", "9"}
Upper == {"A", "B", "C", "D", "E", "F", "G", "H", "I", "J", "K", "L", "M",
          "N", "O", "P", "Q", "R", "S", "T", "U", "V", "W", "X", "Y", "Z"}
Lower == {"a", "b", "c", "d", "e", "f", "g", "h", "i", "j", "k", "l", "m",
          "n", "o", "p", "q", "r", "s", "t", "u", "v", "w", "x", "y", "z"}

\* JavaScript truthiness of a string-or-null value
Truthy(v) == v # NULL /\ v # <<>>

\* String.prototype.trim
RECURSIVE TrimLeft(_)
TrimLeft(s) == IF s # <<>> /\ Head(s) \in WS THEN TrimLeft(Tail(s)) ELSE s
RECURSIVE TrimRight(_)
TrimRight(s) ==
    IF s # <<>> /\ s[Len(s)] \in WS THEN TrimRight(SubSeq(s, 1, Len(s) - 1)) ELSE s
Trim(s) == TrimRight(TrimLeft(s))

\* String.prototype.split('\n')
RECURSIVE Split(_)
Split(s) ==
    LET nl == {i \in 1..Len(s) : s[i] = "\n"}
    IN  IF nl = {} THEN <<s>>
        ELSE <<SubSeq(s, 1, Min(nl) - 1)>> \o Split(SubSeq(s, Min(nl) + 1, Len(s)))

\* Array.prototype.join('\n')
RECURSIVE Join(_)
Join(ls) ==
    IF ls = <<>> THEN <<>>
    ELSE IF Len(ls) = 1 THEN ls[1]
    ELSE ls[1] \o <<"\n">> \o Join(Tail(ls))

(***************************************************************************)
(* Regular expressions.  Ends(re, s, i) is the set of positions at which a *)
(* match of re that starts at position i of s can end (the position after  *)
(* its last character), over all the ways the backtracking matcher can     *)
(* take.                                                                   *)
(***************************************************************************)
Cls(S) == [t |-> "cls", cs |-> S]                  \* [...]
NCls(S) == [t |-> "ncls", cs |-> S]                \* [^...]
Lit(w) == [t |-> "lit", w |-> w]                   \* literal text
Cat(rs) == [t |-> "cat", rs |-> rs]                \* concatenation
Rep(r, lo, hi) == [t |-> "rep", r |-> r, lo |-> lo, hi |-> hi, inf |-> FALSE]
Plus(r) == [t |-> "rep", r |-> r, lo |-> 1, hi |-> 1, inf |-> TRUE]
Star(r) == [t |-> "rep", r |-> r, lo |-> 0, hi |-> 0, inf |-> TRUE]
AtLeast(r, n) == [t |-> "rep", r |-> r, lo |-> n, hi |-> n, inf |-> TRUE]
Opt(r) == Rep(r, 0, 1)
Bol == [t |-> "bol", m |-> FALSE]                  \* ^
BolM == [t |-> "bol", m |-> TRUE]                  \* ^ under the m flag
Eol == [t |-> "eol"]                               \* $
Dot == NCls({"\n", "\r"})                          \* .
RS == Cls(WS)                                      \* \s
RD == Cls(Digit)                                   \* \d

RECURSIVE Ends(_, _, _)
RECURSIVE EndsCat(_, _, _, _)
RECURSIVE EndsRep(_, _, _, _)
Ends(re, s, i) ==
    CASE re.t = "cls" -> IF i <= Len(s) /\ s[i] \in re.cs THEN {i + 1} ELSE {}
      [] re.t = "ncls" -> IF i <= Len(s) /\ s[i] \notin re.cs THEN {i + 1} ELSE {}
      [] re.t = "lit" ->
            IF i + Len(re.w) - 1 <= Len(s) /\ \A k \in 1..Len(re.w) : s[i + k - 1] = re.w[k]
            THEN {i + Len(re.w)} ELSE {}
      [] re.t = "bol" ->
            IF i = 1 THEN {i}
            ELSE IF re.m /\ s[i - 1] = "\n" THEN {i} ELSE {}
      [] re.t = "eol" -> IF i = Len(s) + 1 THEN {i} ELSE {}
      [] re.t = "cat" -> EndsCat(re.rs, 1, s, {i})
      [] re.t = "rep" -> EndsRep(re, s, {i}, 0)
EndsCat(rs, k, s, P) ==
    IF k > Len(rs) \/ P = {} THEN P
    ELSE EndsCat(rs, k + 1, s, UNION {Ends(rs[k], s, p) : p \in P})
EndsRep(re, s, P, n) ==
    LET here == IF n >= re.lo THEN P ELSE {}
    IN  IF P = {} \/ (~re.inf /\ n >= re.hi) THEN here
        ELSE here \cup EndsRep(re, s, UNION {Ends(re.r, s, p) : p \in P}, n + 1)

\* the start positions of the matches of re in s
Starts(re, s) == {i \in 1..(Len(s) + 1) : Ends(re, s, i) # {}}
\* RegExp.prototype.test
Test(re, s) == \E i \in 1..(Len(s) + 1) : Ends(re, s, i) # {}

(***************************************************************************)
(* The patterns of the source.                                             *)
(***************************************************************************)
TeamsHost == <<"t", "e", "a", "m", "s", ".", "m", "i", "c", "r", "o", "s", "o", "f", "t", ".", "c", "o", "m">>
HttpsTeams == <<"h", "t", "t", "p", "s", ":", "/", "/">> \o TeamsHost

\* /\d{1,2}:\d{2}\s+[AP]M/
HMM_AMPM == Cat(<<Rep(RD, 1, 2), Lit(<<":">>), Rep(RD, 2, 2), Plus(RS),
                  Cls({"A", "P"}), Lit(<<"M">>)>>)
\* [A-Z][a-zA-Z\s'-]+  (the name group of the Docx and Simple patterns)
NameStart == Cls(Upper)
NameChar == Cls(Upper \cup Lower \cup WS \cup {"'", "-"})

\* part_003:28  /→\s*https:\/\/teams\.microsoft\.com/
teamsUrlPattern == Cat(<<Lit(<<"→">>), Star(RS), Lit(HttpsTeams)>>)
\* part_003:30  /\d{1,2}:\d{2}:\d{2}\s+[AP]M/
timestampPattern ==
    Cat(<<Rep(RD, 1, 2), Lit(<<":">>), Rep(RD, 2, 2), Lit(<<":">>), Rep(RD, 2, 2),
          Plus(RS), Cls({"A", "P"}), Lit(<<"M">>)>>)
\* part_003:99  /^\d{1,2}:\d{2}:\d{2}\s+[AP]M\s*→\s*https:\/\/teams\.microsoft\.com/
timestampLinePattern ==
    Cat(<<Bol, timestampPattern, Star(RS), teamsUrlPattern>>)

\* cleaner-downloaded.ts:26,81  /\*\*([^*]+)\*\*\s+\d{1,2}:\d{2}\s+[AP]M/
boldOpen == Lit(<<"*", "*">>)
boldName == Plus(NCls({"*"}))
boldRest == Cat(<<Lit(<<"*", "*">>), Plus(RS), HMM_AMPM>>)
boldPattern == Cat(<<boldOpen, boldName, boldRest>>)
\* cleaner-downloaded.ts:89  /<b>([^<]+)<\/b>\s+\d{1,2}:\d{2}\s+[AP]M/
htmlOpen == Lit(<<"<", "b", ">">>)
htmlName == Plus(NCls({"<"}))
htmlRest == Cat(<<Lit(<<"<", "/", "b", ">">>), Plus(RS), HMM_AMPM>>)
htmlPattern == Cat(<<htmlOpen, htmlName, htmlRest>>)

\* cleaner-docx.ts:29  /^\s{2,}/m
leadingWhitespace == Cat(<<BolM, AtLeast(RS, 2)>>)
\* cleaner-docx.ts:33  /teams\.microsoft\.com/
hasTeamsUrlPattern == Lit(TeamsHost)
\* cleaner-docx.ts:34  /\*\*[^*]+\*\*/
hasBoldMarkerPattern == Cat(<<Lit(<<"*", "*">>), Plus(NCls({"*"})), Lit(<<"*", "*">>)>>)

(***************************************************************************)
(* Capture groups.  Each capturing pattern of the source has the shape     *)
(* pre (group) post with one quantifier inside the group; the backtracking *)
(* matcher takes the leftmost start, and for it the longest group (greedy) *)
(* or the shortest group (lazy) after which post still matches.            *)
(***************************************************************************)
GroupSpan(pre, grp, post, s, lazy) ==
    LET i0 == Min(Starts(Cat(<<pre, grp, post>>), s))
        from == Max(Ends(pre, s, i0))
        to == {j \in Ends(grp, s, from) : Ends(post, s, j) # {}}
    IN  [from |-> from, to |-> IF lazy THEN Min(to) ELSE Max(to)]
Group(pre, grp, post, s, lazy) ==
    LET g == GroupSpan(pre, grp, post, s, lazy)
    IN  SubSeq(s, g.from, g.to - 1)
\* the text a trailing (.*)$ captures once mid (greedy) has matched from j
TailGroup(mid, s, j) ==
    LET k == Max({e \in Ends(mid, s, j) : Ends(Cat(<<Star(Dot), Eol>>), s, e) # {}})
    IN  SubSeq(s, k, Len(s))

\* String.prototype.replace(re, '') with the g flag: every match, left to
\* right; the patterns replaced have a single end for each start, up to a
\* greedy trailing \s+
RECURSIVE ReplaceAllFrom(_, _, _)
ReplaceAllFrom(re, s, i) ==
    IF i > Len(s) THEN <<>>
    ELSE IF Ends(re, s, i) # {} THEN ReplaceAllFrom(re, s, Max(Ends(re, s, i)))
    ELSE <<s[i]>> \o ReplaceAllFrom(re, s, i + 1)
ReplaceAll(re, s) == ReplaceAllFrom(re, s, 1)
\* String.prototype.replace(re, '') without the g flag
ReplaceFirst(re, s) ==
    IF Starts(re, s) = {} THEN s
    ELSE LET i0 == Min(Starts(re, s))
         IN  SubSeq(s, 1, i0 - 1) \o SubSeq(s, Max(Ends(re, s, i0)), Len(s))

(***************************************************************************)
(* TeamsDirectPasteCleaner (src/unnamed/part_003)                          *)
(***************************************************************************)
DirectPaste == "TeamsDirectPasteCleaner"
Downloaded == "TeamsDownloadedCleaner"
Docx == "TeamsDocxCleaner"
Simple == "SimpleTranscriptCleaner"

\* variant: the timestamp is not asked for
DirectPaste_canHandle_UrlOnly(text) == Test(teamsUrlPattern, text)

DirectPaste_canHandle(text) ==
    Test(teamsUrlPattern, text) /\ Test(timestampPattern, text)

\* variant: no whitespace is allowed between the timestamp and the arrow
isTimestampLine_NoSpace(line) ==
    Test(Cat(<<Bol, timestampPattern, teamsUrlPattern>>), line)

\* variant: AM or PM is not expected after the seconds
isTimestampLine_NoMeridiem(line) ==
    Test(Cat(<<Bol, Rep(RD, 1, 2), Lit(<<":">>), Rep(RD, 2, 2), Lit(<<":">>), Rep(RD, 2, 2),
               Star(RS), teamsUrlPattern>>), line)

isTimestampLine(line) == Test(timestampLinePattern, line)

(***************************************************************************)
(* TeamsDownloadedCleaner (src/src/transcript/cleaner-downloaded.ts)       *)
(***************************************************************************)
\* variant: Downloaded refuses text that holds a Teams link, as Docx does
Downloaded_canHandle_NoLink(text) ==
    Test(boldPattern, text) /\ ~Test(Lit(TeamsHost), text)

Downloaded_canHandle(text) == Test(boldPattern, text)

\* the speaker name, the empty string when the bold text is blank, or NULL
extractSpeaker(line) ==
    IF Test(boldPattern, line)
    THEN Trim(Group(boldOpen, boldName, boldRest, line, FALSE))
    ELSE IF Test(htmlPattern, line)
    THEN Trim(Group(htmlOpen, htmlName, htmlRest, line, FALSE))
    ELSE NULL

(***************************************************************************)
(* TeamsDocxCleaner (src/src/transcript/cleaner-docx.ts)                   *)
(***************************************************************************)
\* variant: Docx does not refuse text with bold markers
Docx_canHandle_BoldAllowed(text) ==
    /\ Test(HMM_AMPM, text)
    /\ ~Test(hasTeamsUrlPattern, text)
    /\ Test(leadingWhitespace, text)

Docx_canHandle(text) ==
    /\ Test(HMM_AMPM, text)
    /\ ~Test(hasTeamsUrlPattern, text)
    /\ ~Test(hasBoldMarkerPattern, text)
    /\ Test(leadingWhitespace, text)

\* /^([A-Z][a-zA-Z\s'-]+?)\s+(\d{1,2}:\d{2}\s+[AP]M)(.*)$/
docxName == Cat(<<NameStart, Plus(NameChar)>>)
docxStamp == Cat(<<Plus(RS), HMM_AMPM>>)
docxRest == Cat(<<docxStamp, Star(Dot), Eol>>)
docxPattern == Cat(<<Bol, docxName, docxRest>>)

\* variant: what follows the timestamp is dropped
extractSpeakerInfo_NoInline(line) ==
    IF ~Test(docxPattern, line) THEN [matched |-> FALSE]
    ELSE LET g == GroupSpan(Bol, docxName, docxRest, line, TRUE)
         IN  [matched |-> TRUE,
              speaker |-> Trim(SubSeq(line, g.from, g.to - 1)),
              remainingContent |-> NULL]

\* matched = FALSE is the null result; remainingContent NULL is undefined
extractSpeakerInfo(line) ==
    IF ~Test(docxPattern, line) THEN [matched |-> FALSE]
    ELSE LET g == GroupSpan(Bol, docxName, docxRest, line, TRUE)
             remainingContent == Trim(TailGroup(docxStamp, line, g.to))
         IN  [matched |-> TRUE,
              speaker |-> Trim(SubSeq(line, g.from, g.to - 1)),
              remainingContent |->
                  IF Truthy(remainingContent) THEN remainingContent ELSE NULL]

(***************************************************************************)
(* SimpleTranscriptCleaner (src/src/transcript/cleaner-simple.ts)          *)
(***************************************************************************)
Simple_canHandle(text) == TRUE

\* (:\d{2})?
optSeconds == Opt(Cat(<<Lit(<<":">>), Rep(RD, 2, 2)>>))
\* /\[\d{1,2}:\d{2}(:\d{2})?\]/g
bracketStamp ==
    Cat(<<Lit(<<"[">>), Rep(RD, 1, 2), Lit(<<":">>), Rep(RD, 2, 2), optSeconds, Lit(<<"]">>)>>)
\* /\(\d{1,2}:\d{2}(:\d{2})?\)/g
parenStamp ==
    Cat(<<Lit(<<"(">>), Rep(RD, 1, 2), Lit(<<":">>), Rep(RD, 2, 2), optSeconds, Lit(<<")">>)>>)
\* /\d{1,2}:\d{2}\s*[AP]M/gi
meridiemStamp ==
    Cat(<<Rep(RD, 1, 2), Lit(<<":">>), Rep(RD, 2, 2), Star(RS),
          Cls({"A", "P", "a", "p"}), Cls({"M", "m"})>>)
\* /^\d{1,2}:\d{2}(:\d{2})?\s+/
leadingStamp ==
    Cat(<<Bol, Rep(RD, 1, 2), Lit(<<":">>), Rep(RD, 2, 2), optSeconds, Plus(RS)>>)

removeTimestamps(line) ==
    Trim(ReplaceFirst(leadingStamp,
            ReplaceAll(meridiemStamp, ReplaceAll(parenStamp, ReplaceAll(bracketStamp, line)))))

\* /^([A-Z][a-zA-Z\s'-]+?):\s*(.*)$/
simpleName == Cat(<<NameStart, Plus(NameChar)>>)
colonSep == Cat(<<Lit(<<":">>), Star(RS)>>)
colonRest == Cat(<<colonSep, Star(Dot), Eol>>)
colonPattern == Cat(<<Bol, simpleName, colonRest>>)
\* /^([A-Z][a-zA-Z\s'-]+?)\s*-\s*(.*)$/
dashSep == Cat(<<Star(RS), Lit(<<"-">>), Star(RS)>>)
dashRest == Cat(<<dashSep, Star(Dot), Eol>>)
dashPattern == Cat(<<Bol, simpleName, dashRest>>)
\* /^[A-Z][a-z]+\s+[A-Z][a-z]/
bareNamePattern ==
    Cat(<<Bol, Cls(Upper), Plus(Cls(Lower)), Plus(RS), Cls(Upper), Cls(Lower)>>)

\* value || undefined
OrUndefined(v) == IF Truthy(v) THEN v ELSE NULL

\* the speaker and inline content of one capturing pattern
NameAndContent(rest, sep, cleaned) ==
    LET g == GroupSpan(Bol, simpleName, rest, cleaned, TRUE)
    IN  [speaker |-> SubSeq(cleaned, g.from, g.to - 1),
         content |-> TailGroup(sep, cleaned, g.to)]

\* variant: the dash pattern is tried before the colon pattern
extractSpeakerAndContent_DashFirst(line) ==
    LET cleaned == removeTimestamps(line)
        m1 == NameAndContent(colonRest, colonSep, cleaned)
        m2 == NameAndContent(dashRest, dashSep, cleaned)
    IN  IF Test(dashPattern, cleaned) /\ Truthy(m2.content)
        THEN [matched |-> TRUE, speaker |-> Trim(m2.speaker),
              content |-> OrUndefined(Trim(m2.content))]
        ELSE IF Test(colonPattern, cleaned)
        THEN [matched |-> TRUE, speaker |-> Trim(m1.speaker),
              content |-> OrUndefined(Trim(m1.content))]
        ELSE IF Test(bareNamePattern, cleaned)
        THEN [matched |-> TRUE, speaker |-> Trim(cleaned), content |-> NULL]
        ELSE [matched |-> FALSE]

\* matched = FALSE is the null result; content NULL is undefined
extractSpeakerAndContent(line) ==
    LET cleaned == removeTimestamps(line)
        m1 == NameAndContent(colonRest, colonSep, cleaned)
        m2 == NameAndContent(dashRest, dashSep, cleaned)
    IN  IF Test(colonPattern, cleaned)
        THEN [matched |-> TRUE, speaker |-> Trim(m1.speaker),
              content |-> OrUndefined(Trim(m1.content))]
        ELSE IF Test(dashPattern, cleaned) /\ Truthy(m2.content)
        THEN [matched |-> TRUE, speaker |-> Trim(m2.speaker),
              content |-> OrUndefined(Trim(m2.content))]
        ELSE IF Test(bareNamePattern, cleaned)
        THEN [matched |-> TRUE, speaker |-> Trim(cleaned), content |-> NULL]
        ELSE [matched |-> FALSE]

(***************************************************************************)
(* What the four cleaners share: each clean() saves an entry with the same *)
(* guard and each has the same formatEntries.                              *)
(***************************************************************************)
\* variant: the test of currentSpeaker is lost
HasSpeaker_Always(speaker) == TRUE

\* the test of currentSpeaker in "if (currentSpeaker ...)"
HasSpeaker(speaker) == Truthy(speaker)

\* variant: the test of currentContent.length is lost
SaveEntry_AnyContent(es, speaker, cont) ==
    IF Truthy(speaker)
    THEN Append(es, [speaker |-> speaker, content |-> Trim(Join(cont))])
    ELSE es

\* variant: an entry of a speaker already present is merged into the first one
SaveEntry_Merged(es, speaker, cont) ==
    IF Truthy(speaker) /\ Len(cont) > 0
    THEN IF \E k \in 1..Len(es) : es[k].speaker = speaker
         THEN LET k == Min({j \in 1..Len(es) : es[j].speaker = speaker})
              IN  [es EXCEPT ![k].content = @ \o <<"\n">> \o Trim(Join(cont))]
         ELSE Append(es, [speaker |-> speaker, content |-> Trim(Join(cont))])
    ELSE es

\* if (currentSpeaker && currentContent.length > 0) entries.push({...})
SaveEntry(es, speaker, cont) ==
    IF HasSpeaker(speaker) /\ Len(cont) > 0
    THEN Append(es, [speaker |-> speaker, content |-> Trim(Join(cont))])
    ELSE es

\* variant: nothing is returned when there is no entry
formatEntries_Undefined(es) ==
    IF es = <<>> THEN NULL
    ELSE LET f == [k \in 1..(2 * Len(es)) |->
                      IF k % 2 = 1 THEN es[(k + 1) \div 2].speaker
                      ELSE es[k \div 2].content]
         IN  Join(f)

\* variant: no blank line is pushed after an entry
RECURSIVE Formatted_NoSeparator(_)
Formatted_NoSeparator(es) ==
    IF es = <<>> THEN <<>>
    ELSE <<es[1].speaker, es[1].content>> \o Formatted_NoSeparator(Tail(es))

\* formatted.push(entry.speaker); formatted.push(entry.content); formatted.push('')
RECURSIVE Formatted(_)
Formatted(es) ==
    IF es = <<>> THEN <<>>
    ELSE <<es[1].speaker, es[1].content, <<>>>> \o Formatted(Tail(es))
\* while (formatted.length > 0 && formatted[formatted.length - 1] === '') formatted.pop()
\* variant: the trailing separator is left in place
PopBlank_Kept(f) == f

RECURSIVE PopBlank(_)
PopBlank(f) ==
    IF Len(f) > 0 /\ f[Len(f)] = <<>> THEN PopBlank(SubSeq(f, 1, Len(f) - 1)) ELSE f
formatEntries(es) == Join(PopBlank(Formatted(es)))

\* formatEntries as each cleaner file writes it: the array after the for
\* loop, the trailing '' popped, joined
DirectPaste_formatEntries(es) ==
    LET formatted == [k \in 1..(3 * Len(es)) |->
                         CASE k % 3 = 1 -> es[(k + 2) \div 3].speaker
                           [] k % 3 = 2 -> es[(k + 1) \div 3].content
                           [] OTHER     -> <<>>]
    IN  Join(PopBlank(formatted))
Downloaded_formatEntries(es) ==
    LET formatted == [k \in 1..(3 * Len(es)) |->
                         CASE k % 3 = 1 -> es[(k + 2) \div 3].speaker
                           [] k % 3 = 2 -> es[(k + 1) \div 3].content
                           [] OTHER     -> <<>>]
    IN  Join(PopBlank(formatted))
Docx_formatEntries(es) ==
    LET formatted == [k \in 1..(3 * Len(es)) |->
                         CASE k % 3 = 1 -> es[(k + 2) \div 3].speaker
                           [] k % 3 = 2 -> es[(k + 1) \div 3].content
                           [] OTHER     -> <<>>]
    IN  Join(PopBlank(formatted))
Simple_formatEntries(es) ==
    LET formatted == [k \in 1..(3 * Len(es)) |->
                         CASE k % 3 = 1 -> es[(k + 2) \div 3].speaker
                           [] k % 3 = 2 -> es[(k + 1) \div 3].content
                           [] OTHER     -> <<>>]
    IN  Join(PopBlank(formatted))

(***************************************************************************)
(* TranscriptDetector (src/src/transcript/detector.ts)                     *)
(***************************************************************************)
\* variant: no cleaner is registered
Cleaners_Empty == <<>>

\* variant: Downloaded is registered ahead of Direct-paste
Cleaners_DownloadedFirst == <<Downloaded, DirectPaste, Docx, Simple>>

\* the constructor's list, in its order
Cleaners == <<DirectPaste, Downloaded, Docx, Simple>>

canHandle(c, text) ==
    CASE c = DirectPaste -> DirectPaste_canHandle(text)
      [] c = Downloaded -> Downloaded_canHandle(text)
      [] c = Docx -> Docx_canHandle(text)
      [] c = Simple -> Simple_canHandle(text)

getName(c) ==
    CASE c = DirectPaste -> "Teams Direct Paste (Format 1)"
      [] c = Downloaded -> "Teams Downloaded (Format 2)"
      [] c = Docx -> "Teams .docx Export (Format 3)"
      [] c = Simple -> "Simple/Generic (Format 4)"

(***************************************************************************)
(* Inputs: a text is up to MaxChunks pieces of Vocab joined by newlines.   *)
(***************************************************************************)
TsLine == <<"1", ":", "2", "3", ":", "4", "5", " ", "A", "M", " ", "→">> \o HttpsTeams
Vocab == {
    <<>>,
    <<"h", "i">>,
    <<"A", "l", " ", "B", "o">>,
    TsLine,
    <<"C", "y", "\n">> \o TsLine \o <<"\n", "y", "o">>,
    <<"*", "*", "A", "l", " ", "B", "o", "*", "*", " ", "1", ":", "2", "3", " ", "A", "M", "\n", "h", "i">>,
    <<"*", "*", "C", "y", "*", "*", " ", "1", ":", "2", "3", " ", "P", "M", "\n", "y", "o">>,
    <<"<", "b", ">", "A", "l", " ", "B", "o", "<", "/", "b", ">", " ", "1", ":", "2", "3", " ", "A", "M">>,
    <<"*", "*", " ", "*", "*", " ", "1", ":", "2", "3", " ", "A", "M">>,
    <<" ", " ", "C", "y", " ", "1", ":", "2", "3", " ", "A", "M", " ", "y", "o">>,
    <<"A", "l", " ", "B", "o", " ", "1", ":", "2", "3", " ", "P", "M">>,
    <<"A", "l", " ", "B", "o", " ", "1", ":", "2", "3", " ", "P", "M", " ", "h", "i">>,
    <<"C", "y", ":", " ", "y", "o">>,
    <<"A", "l", " ", "B", "o", " ", "-", " ", "h", "i">> }

Inputs == {Join(chunks) : chunks \in UNION {[1..n -> Vocab] : n \in 0..MaxChunks}}

(***************************************************************************)
(* State.                                                                  *)
(***************************************************************************)
VARIABLES
    pc,              \* "idle", "detect", "clean", "done": where the call is
    content,         \* the argument of the running detect / clean
    probe,           \* detect: index of the cleaner being probed
    selected,        \* detect's return value ("none" before it returns)
    lines,           \* clean: content.split('\n')
    i,               \* clean: index of the next line (1-based)
    currentSpeaker,  \* clean: local
    currentContent,  \* clean: local
    skipNextLine,    \* clean: local (Direct-paste only)
    entries,         \* clean: local
    cleanCalls,      \* the clean() calls of the running top-level call: cleaner
                     \*          and argument
    cleaned,         \* the return value of the last clean() (NULL before it)
    result,          \* detectAndClean's return value (NULL before it returns)
    pass,            \* 1: clean() called by detectAndClean; 2: clean() called
                     \*    directly (in Spec: on the output of the first call)
    firstEntries,    \* the entries of pass 1, kept for comparison
    speakerLine,     \* history: index of the line that set currentSpeaker
    contentLines,    \* history: indexes of the lines behind currentContent
    origins,         \* history: per entry, its header line and content lines
    headers,         \* history: per speaker header seen, its line, its name and
                     \*          the number of content pieces it has received
    calls,           \* number of calls made on the detector and its cleaners
    answer,          \* the last call made in one step and the value it returned
    other,           \* the frame of the caller that is not running
    overlapped,      \* history: both callers have been inside a call at once
    conv,            \* a conversation: a list of speaker and content lines
    file,            \* the text of the meeting note in the vault
    autoCleanTranscript, \* settings.autoCleanTranscript
    stage,           \* process(): the step GeneralMeetingHandler is at
    hasSummary,      \* process(): the local hasCopilotSummary
    steps,           \* history: the steps process() has run, in order
    opened,          \* history: the note as process() first read it
    processing,      \* MeetingProcessorPlugin.processing
    invocations      \* per invocation of processMeeting: where it is, how it
                     \*          left, and whether it validated and routed

vars == <<pc, content, probe, selected, lines, i, currentSpeaker, currentContent,
          skipNextLine, entries, cleanCalls, cleaned, result, pass, firstEntries,
          speakerLine, contentLines, origins, headers,
          calls, answer, other, overlapped, conv,
          file, autoCleanTranscript, stage, hasSummary, steps, opened,
          processing, invocations>>

\* the accumulators of clean()'s loop, with their history
parse == <<currentSpeaker, currentContent, entries, speakerLine, contentLines, origins,
           headers>>
locals == <<parse, skipNextLine>>
\* the state of the handler that owns the detector
meeting == <<file, autoCleanTranscript, stage, hasSummary, steps, opened>>
\* what no step of detectAndClean touches
\* the plugin's processMeeting
plugin == <<processing, invocations>>
outside == <<calls, answer, other, overlapped, conv, meeting, plugin>>

\* the variables of a caller that has not called yet
\* an invocation of processMeeting that has not been made yet
NotInvoked == [at |-> "none", exit |-> "none", validated |-> FALSE, routed |-> FALSE]

IdleFrame ==
    [pc |-> "idle", content |-> <<>>, probe |-> 1, selected |-> "none", lines |-> <<>>,
     i |-> 1, currentSpeaker |-> <<>>, currentContent |-> <<>>, skipNextLine |-> FALSE,
     entries |-> <<>>, cleanCalls |-> <<>>, cleaned |-> NULL, result |-> NULL, pass |-> 1,
     firstEntries |-> <<>>, speakerLine |-> 0, contentLines |-> <<>>, origins |-> <<>>,
     headers |-> <<>>]

Init ==
    /\ pc = "idle"
    /\ content = <<>>
    /\ probe = 1
    /\ selected = "none"
    /\ lines = <<>>
    /\ i = 1
    /\ currentSpeaker = <<>>
    /\ currentContent = <<>>
    /\ skipNextLine = FALSE
    /\ entries = <<>>
    /\ cleanCalls = <<>>
    /\ cleaned = NULL
    /\ result = NULL
    /\ pass = 1
    /\ firstEntries = <<>>
    /\ speakerLine = 0
    /\ contentLines = <<>>
    /\ origins = <<>>
    /\ headers = <<>>
    /\ calls = 0
    /\ answer = [call |-> "none"]
    /\ other = IdleFrame
    /\ overlapped = FALSE
    /\ conv = <<>>
    /\ file = NULL
    /\ autoCleanTranscript = TRUE
    /\ stage = "idle"
    /\ hasSummary = FALSE
    /\ steps = <<>>
    /\ opened = NULL
    /\ processing = FALSE
    /\ invocations = [k \in 1..MaxInvocations |-> NotInvoked]

(***************************************************************************)
(* detectAndClean(content): detector.ts:43-51.  The call is taken in       *)
(* steps: one per cleaner probed by detect, one per line of clean's loop,  *)
(* one for the code after the loop.                                        *)
(***************************************************************************)
DetectAndClean ==
    /\ pc = "idle"
    /\ content' \in Inputs
    /\ probe' = 1
    /\ pc' = "detect"
    /\ UNCHANGED <<selected, lines, i, cleanCalls, cleaned, result, pass, firstEntries>>
    /\ UNCHANGED locals
    /\ UNCHANGED outside

\* detector.ts:37  return this.cleaners[this.cleaners.length - 1]
Fallback(cleaners) == IF Len(cleaners) > 0 THEN cleaners[Len(cleaners)] ELSE "undefined"

\* detector.ts:27-38 as a function of the list and the text
RECURSIVE DetectFrom(_, _, _)
DetectFrom(cleaners, k, text) ==
    IF k > Len(cleaners) THEN Fallback(cleaners)
    ELSE IF canHandle(cleaners[k], text) THEN cleaners[k]
    ELSE DetectFrom(cleaners, k + 1, text)
detect(cleaners, text) == DetectFrom(cleaners, 1, text)

\* variant: the name reported is the name of the last cleaner of the list
ResultOf_LastName(cleaner, out) ==
    [cleaner |-> getName(Cleaners[Len(Cleaners)]), cleaned |-> out]

\* detector.ts:47-50  return { cleaner: cleaner.getName(), cleaned }
ResultOf(cleaner, out) == [cleaner |-> getName(cleaner), cleaned |-> out]

(***************************************************************************)
(* clean() and detectAndClean() as functions of their argument: the value  *)
(* the code returns when the call runs from fresh locals to its end with   *)
(* nothing else running.                                                   *)
(***************************************************************************)
\* the locals of clean() at its entry (part_003:36-41)
FreshLocals == [speaker |-> <<>>, cont |-> <<>>, skip |-> FALSE, es |-> <<>>]
\* "Save previous speaker's content", "Start new speaker"
StartSpeaker(st, name, inline) ==
    [st EXCEPT !.es = SaveEntry(st.es, st.speaker, st.cont),
               !.speaker = name, !.cont = inline]
\* if (currentSpeaker) currentContent.push(line)
PushContent(st, line) ==
    IF HasSpeaker(st.speaker) THEN [st EXCEPT !.cont = Append(st.cont, line)] ELSE st
\* one iteration of the loop of cleaner c on line k of ls
LoopBody(c, st, ls, k) ==
    LET line == Trim(ls[k])
        nextLine == IF k + 1 <= Len(ls) THEN Trim(ls[k + 1]) ELSE <<>>
        info == extractSpeakerInfo(line)
        extracted == extractSpeakerAndContent(line)
    IN  IF line = <<>> THEN st
        ELSE CASE c = DirectPaste ->
                    IF st.skip THEN [st EXCEPT !.skip = FALSE]
                    ELSE IF isTimestampLine(line) THEN st
                    ELSE IF isTimestampLine(nextLine)
                         THEN [StartSpeaker(st, line, <<>>) EXCEPT !.skip = TRUE]
                    ELSE PushContent(st, line)
               [] c = Downloaded ->
                    IF Truthy(extractSpeaker(line))
                    THEN StartSpeaker(st, extractSpeaker(line), <<>>)
                    ELSE PushContent(st, line)
               [] c = Docx ->
                    IF info.matched
                    THEN StartSpeaker(st, info.speaker,
                                      IF Truthy(info.remainingContent)
                                      THEN <<info.remainingContent>> ELSE <<>>)
                    ELSE PushContent(st, line)
               [] c = Simple ->
                    IF extracted.matched
                    THEN StartSpeaker(st, extracted.speaker,
                                      IF Truthy(extracted.content)
                                      THEN <<extracted.content>> ELSE <<>>)
                    ELSE PushContent(st, line)
RECURSIVE Loop(_, _, _, _)
Loop(c, st, ls, k) == IF k > Len(ls) THEN st ELSE Loop(c, LoopBody(c, st, ls, k), ls, k + 1)
\* the entries clean() has collected when it formats them
parseEntries(c, text) ==
    LET st == Loop(c, FreshLocals, Split(text), 1)
    IN  SaveEntry(st.es, st.speaker, st.cont)
clean(c, text) == formatEntries(parseEntries(c, text))
\* detector.ts:43-51
detectAndClean(text) ==
    LET cleaner == detect(Cleaners, text)
    IN  ResultOf(cleaner, clean(cleaner, text))

\* variant: entries is a field of the cleaner, not reset by the next call
EnterClean_KeepEntries(c, text, log) ==
    /\ lines' = Split(text)
    /\ i' = 1
    /\ currentSpeaker' = <<>>
    /\ currentContent' = <<>>
    /\ skipNextLine' = FALSE
    /\ entries' = entries
    /\ speakerLine' = 0
    /\ contentLines' = <<>>
    /\ origins' = origins
    /\ headers' = <<>>
    /\ cleanCalls' = Append(log, [cleaner |-> c, arg |-> text])

\* the entry of clean(): split the content, fresh locals; log is the calls
\* made before this one
EnterClean(c, text, log) ==
    /\ lines' = Split(text)
    /\ i' = 1
    /\ currentSpeaker' = <<>>
    /\ currentContent' = <<>>
    /\ skipNextLine' = FALSE
    /\ entries' = <<>>
    /\ speakerLine' = 0
    /\ contentLines' = <<>>
    /\ origins' = <<>>
    /\ headers' = <<>>
    /\ cleanCalls' = Append(log, [cleaner |-> c, arg |-> text])

\* one iteration of detect's loop (detector.ts:28-33), or the return after
\* it (detector.ts:37); detectAndClean then enters clean on what detect
\* returned (detector.ts:44-45)
Probe ==
    /\ pc = "detect"
    /\ LET found == probe <= Len(Cleaners) /\ canHandle(Cleaners[probe], content)
           ret == IF found THEN Cleaners[probe] ELSE Fallback(Cleaners)
       IN  IF found \/ probe > Len(Cleaners)
           THEN /\ selected' = ret
                /\ pc' = "clean"
                /\ EnterClean(ret, content, cleanCalls)
                /\ UNCHANGED probe
           ELSE /\ probe' = probe + 1
                /\ UNCHANGED <<pc, selected, lines, i, cleanCalls>>
                /\ UNCHANGED locals
    /\ UNCHANGED <<content, cleaned, result, pass, firstEntries>>
    /\ UNCHANGED outside

(***************************************************************************)
(* clean(): the loop body of each cleaner, one line per step.              *)
(***************************************************************************)
\* "Save previous speaker's content" and "Start new speaker"
NewSpeaker(name, inline) ==
    /\ entries' = SaveEntry(entries, currentSpeaker, currentContent)
    /\ origins' = IF Len(entries') > Len(entries)
                  THEN Append(origins, [hdr |-> speakerLine, lines |-> contentLines])
                  ELSE origins
    /\ currentSpeaker' = name
    /\ currentContent' = inline
    /\ speakerLine' = i
    /\ contentLines' = IF inline = <<>> THEN <<>> ELSE <<i>>
    /\ headers' = Append(headers, [line |-> i, speaker |-> name, got |-> Len(inline)])

\* variant: only the first line after a header is kept
AddContent_FirstOnly(line) ==
    IF HasSpeaker(currentSpeaker) /\ currentContent = <<>>
    THEN /\ currentContent' = Append(currentContent, line)
         /\ contentLines' = Append(contentLines, i)
         /\ headers' = IF headers = <<>> THEN headers
                       ELSE [headers EXCEPT ![Len(headers)].got = @ + 1]
         /\ UNCHANGED <<currentSpeaker, entries, speakerLine, origins>>
    ELSE UNCHANGED parse

\* if (currentSpeaker) currentContent.push(line)
AddContent(line) ==
    IF HasSpeaker(currentSpeaker)
    THEN /\ currentContent' = Append(currentContent, line)
         /\ contentLines' = Append(contentLines, i)
         /\ headers' = IF headers = <<>> THEN headers
                       ELSE [headers EXCEPT ![Len(headers)].got = @ + 1]
         /\ UNCHANGED <<currentSpeaker, entries, speakerLine, origins>>
    ELSE UNCHANGED parse

Running(c) == pc = "clean" /\ selected = c /\ i <= Len(lines)
\* variant: the loop does not move to the next line
NextLine_Stay ==
    /\ i' = i
    /\ UNCHANGED <<pc, content, probe, selected, lines, cleanCalls, cleaned, result,
                   pass, firstEntries>>
    /\ UNCHANGED outside
\* for (let i = 0; i < lines.length; i++): the step of the loop
NextLine ==
    /\ i' = i + 1
    /\ UNCHANGED <<pc, content, probe, selected, lines, cleanCalls, cleaned, result,
                   pass, firstEntries>>
    /\ UNCHANGED outside

\* part_003:43-84
DirectPasteStep ==
    /\ Running(DirectPaste)
    /\ LET line == Trim(lines[i])
           nextLine == IF i + 1 <= Len(lines) THEN Trim(lines[i + 1]) ELSE <<>>
       IN  IF line = <<>> THEN UNCHANGED locals
           ELSE IF skipNextLine THEN skipNextLine' = FALSE /\ UNCHANGED parse
           ELSE IF isTimestampLine(line) THEN UNCHANGED locals
           ELSE IF isTimestampLine(nextLine)
                THEN NewSpeaker(line, <<>>) /\ skipNextLine' = TRUE
           ELSE AddContent(line) /\ UNCHANGED skipNextLine
    /\ NextLine

\* cleaner-downloaded.ts:37-66
DownloadedStep ==
    /\ Running(Downloaded)
    /\ LET trimmed == Trim(lines[i])
           speakerMatch == extractSpeaker(trimmed)
       IN  IF trimmed = <<>> THEN UNCHANGED parse
           ELSE IF Truthy(speakerMatch) THEN NewSpeaker(speakerMatch, <<>>)
           ELSE AddContent(trimmed)
    /\ UNCHANGED skipNextLine
    /\ NextLine

\* cleaner-docx.ts:49-84
DocxStep ==
    /\ Running(Docx)
    /\ LET trimmed == Trim(lines[i])
           speakerInfo == extractSpeakerInfo(trimmed)
       IN  IF trimmed = <<>> THEN UNCHANGED parse
           ELSE IF speakerInfo.matched
                THEN NewSpeaker(speakerInfo.speaker,
                                IF Truthy(speakerInfo.remainingContent)
                                THEN <<speakerInfo.remainingContent>> ELSE <<>>)
           ELSE AddContent(trimmed)
    /\ UNCHANGED skipNextLine
    /\ NextLine

\* cleaner-simple.ts:36-64
SimpleStep ==
    /\ Running(Simple)
    /\ LET trimmed == Trim(lines[i])
           extracted == extractSpeakerAndContent(trimmed)
       IN  IF trimmed = <<>> THEN UNCHANGED parse
           ELSE IF extracted.matched
                THEN NewSpeaker(extracted.speaker,
                                IF Truthy(extracted.content)
                                THEN <<extracted.content>> ELSE <<>>)
           ELSE AddContent(trimmed)
    /\ UNCHANGED skipNextLine
    /\ NextLine

\* after the loop: "Save last speaker's content", return formatEntries(entries);
\* in pass 1 detectAndClean returns the pair (detector.ts:47-50)
CleanReturn ==
    /\ pc = "clean"
    /\ i > Len(lines)
    /\ entries' = SaveEntry(entries, currentSpeaker, currentContent)
    /\ origins' = IF Len(entries') > Len(entries)
                  THEN Append(origins, [hdr |-> speakerLine, lines |-> contentLines])
                  ELSE origins
    /\ cleaned' = formatEntries(entries')
    /\ result' = IF pass = 1 THEN ResultOf(selected, cleaned') ELSE result
    /\ pc' = "done"
    /\ UNCHANGED <<content, probe, selected, lines, i, currentSpeaker, currentContent,
                   skipNextLine, cleanCalls, pass, firstEntries, speakerLine,
                   contentLines, headers>>
    /\ UNCHANGED outside

\* a new top-level call: the selected cleaner's clean() applied to its own
\* output
CleanAgain ==
    /\ pc = "done"
    /\ pass = 1
    /\ pass' = 2
    /\ firstEntries' = entries
    /\ content' = cleaned
    /\ EnterClean(selected, cleaned, <<>>)
    /\ pc' = "clean"
    /\ UNCHANGED <<probe, selected, cleaned, result>>
    /\ UNCHANGED outside

Next ==
    \/ DetectAndClean
    \/ Probe
    \/ DirectPasteStep
    \/ DownloadedStep
    \/ DocxStep
    \/ SimpleStep
    \/ CleanReturn
    \/ CleanAgain

Spec == Init /\ [][Next]_vars

(***************************************************************************)
(* Calls made one after another on one detector and its four cleaners:     *)
(* what a call leaves in the variables is there when the next one starts.  *)
(***************************************************************************)
CallTexts == Vocab
Registered == {Cleaners[k] : k \in 1..Len(Cleaners)}
\* the variables of the running call
frame == <<pc, content, probe, selected, lines, i, cleanCalls, cleaned, result, pass,
           firstEntries, locals>>

\* cleaner.canHandle(T), types.ts:13
CallCanHandle ==
    /\ pc = "idle"
    /\ calls < MaxCalls
    /\ \E c \in Registered, T \in CallTexts :
           answer' = [call |-> "canHandle", value |-> canHandle(c, T)]
    /\ calls' = calls + 1
    /\ UNCHANGED <<frame, other, overlapped, conv, meeting, plugin>>

\* detector.detect(T), detector.ts:27-38
CallDetect ==
    /\ pc = "idle"
    /\ calls < MaxCalls
    /\ \E T \in CallTexts : answer' = [call |-> "detect", value |-> detect(Cleaners, T)]
    /\ calls' = calls + 1
    /\ UNCHANGED <<frame, other, overlapped, conv, meeting, plugin>>

\* cleaner.clean(T) called directly, types.ts:8
CallClean ==
    /\ pc = "idle"
    /\ calls < MaxCalls
    /\ \E c \in Registered, T \in CallTexts :
           /\ content' = T
           /\ selected' = c
           /\ EnterClean(c, T, <<>>)
    /\ pass' = 2
    /\ pc' = "clean"
    /\ UNCHANGED <<probe, cleaned, result, firstEntries>>
    /\ UNCHANGED outside

\* detector.detectAndClean(T), detector.ts:43-44
CallDetectAndClean ==
    /\ pc = "idle"
    /\ calls < MaxCalls
    /\ content' \in CallTexts
    /\ probe' = 1
    /\ pass' = 1
    /\ cleanCalls' = <<>>
    /\ pc' = "detect"
    /\ UNCHANGED <<selected, lines, i, cleaned, result, firstEntries>>
    /\ UNCHANGED locals
    /\ UNCHANGED outside

\* the call is over; the caller may make another one
Return ==
    /\ pc = "done"
    /\ pc' = "idle"
    /\ calls' = calls + 1
    /\ UNCHANGED <<content, probe, selected, lines, i, cleanCalls, cleaned, result, pass,
                   firstEntries, locals>>
    /\ UNCHANGED <<answer, other, overlapped, conv, meeting, plugin>>

NextCalls ==
    \/ CallCanHandle
    \/ CallDetect
    \/ CallClean
    \/ CallDetectAndClean
    \/ Probe
    \/ DirectPasteStep
    \/ DownloadedStep
    \/ DocxStep
    \/ SimpleStep
    \/ CleanReturn
    \/ Return

SpecCalls == Init /\ [][NextCalls]_vars

(***************************************************************************)
(* One call, followed from its start to its return: detectAndClean on a    *)
(* text, or clean of any of the four cleaners on a text, whether or not    *)
(* the text is in that cleaner's format.                                   *)
(***************************************************************************)
RunChunks == {
    <<>>,
    <<"h", "i">>,
    <<"C", "y", "\n">> \o TsLine \o <<"\n", "y", "o">>,
    <<"*", "*", "A", "l", " ", "B", "o", "*", "*", " ", "1", ":", "2", "3", " ", "A", "M", "\n", "h", "i">>,
    <<"<", "b", ">", "A", "l", " ", "B", "o", "<", "/", "b", ">", " ", "1", ":", "2", "3", " ", "A", "M">>,
    <<"*", "*", " ", "*", "*", " ", "1", ":", "2", "3", " ", "A", "M">>,
    <<" ", " ", "C", "y", " ", "1", ":", "2", "3", " ", "A", "M", " ", "y", "o">>,
    <<"C", "y", ":", " ", "y", "o">> }
RunTexts == {Join(chunks) : chunks \in UNION {[1..n -> RunChunks] : n \in 0..MaxRunChunks}}

\* detector.detectAndClean(T), detector.ts:43-44
RunDetectAndClean ==
    /\ pc = "idle"
    /\ content' \in RunTexts
    /\ probe' = 1
    /\ pc' = "detect"
    /\ UNCHANGED <<selected, lines, i, cleanCalls, cleaned, result, pass, firstEntries>>
    /\ UNCHANGED locals
    /\ UNCHANGED outside

\* cleaner.clean(T) called directly, types.ts:8
RunClean ==
    /\ pc = "idle"
    /\ \E c \in Registered, T \in RunTexts :
           /\ content' = T
           /\ selected' = c
           /\ EnterClean(c, T, <<>>)
    /\ pass' = 2
    /\ pc' = "clean"
    /\ UNCHANGED <<probe, cleaned, result, firstEntries>>
    /\ UNCHANGED outside

NextRun ==
    \/ RunDetectAndClean
    \/ RunClean
    \/ Probe
    \/ DirectPasteStep
    \/ DownloadedStep
    \/ DocxStep
    \/ SimpleStep
    \/ CleanReturn

SpecRun == Init /\ [][NextRun]_vars

(***************************************************************************)
(* Two callers share one detector.  Each call has its own frame: its       *)
(* argument, its position and the locals of detect() and clean().  The     *)
(* variables hold the frame of the caller that runs, other the frame of    *)
(* the caller that waits, and Switch lets the other caller take the next   *)
(* step, at any point of either call.                                      *)
(***************************************************************************)
\* variant: entries is a field of the cleaner, seen by every call
InstanceFields_Entries == {"entries"}

\* the accumulators that are fields of the cleaner objects instead of locals
\* of clean(): the classes declare none
InstanceFields == {}

\* the frame of the running call
Frame ==
    [pc |-> pc, content |-> content, probe |-> probe, selected |-> selected,
     lines |-> lines, i |-> i, currentSpeaker |-> currentSpeaker,
     currentContent |-> currentContent, skipNextLine |-> skipNextLine,
     entries |-> entries, cleanCalls |-> cleanCalls, cleaned |-> cleaned,
     result |-> result, pass |-> pass, firstEntries |-> firstEntries,
     speakerLine |-> speakerLine, contentLines |-> contentLines, origins |-> origins,
     headers |-> headers]
\* what the caller that resumes finds in an accumulator
Resumed(field, running, waiting) == IF field \in InstanceFields THEN running ELSE waiting
\* the call is inside clean()'s loop, past its first line
InLoop(f) == f.pc = "clean" /\ f.i > 1 /\ f.i <= Len(f.lines)

Switch ==
    /\ other' = Frame
    /\ pc' = other.pc
    /\ content' = other.content
    /\ probe' = other.probe
    /\ selected' = other.selected
    /\ lines' = other.lines
    /\ i' = other.i
    /\ currentSpeaker' = Resumed("currentSpeaker", currentSpeaker, other.currentSpeaker)
    /\ currentContent' = Resumed("currentContent", currentContent, other.currentContent)
    /\ skipNextLine' = Resumed("skipNextLine", skipNextLine, other.skipNextLine)
    /\ entries' = Resumed("entries", entries, other.entries)
    /\ cleanCalls' = other.cleanCalls
    /\ cleaned' = other.cleaned
    /\ result' = other.result
    /\ pass' = other.pass
    /\ firstEntries' = other.firstEntries
    /\ speakerLine' = other.speakerLine
    /\ contentLines' = other.contentLines
    /\ origins' = other.origins
    /\ headers' = other.headers
    /\ overlapped' = (overlapped \/ (InLoop(Frame) /\ InLoop(other)))
    /\ UNCHANGED <<calls, answer, conv, meeting, plugin>>

NextShared ==
    \/ CallDetectAndClean
    \/ Probe
    \/ DirectPasteStep
    \/ DownloadedStep
    \/ DocxStep
    \/ SimpleStep
    \/ CleanReturn
    \/ Switch

SpecShared == Init /\ [][NextShared]_vars

(***************************************************************************)
(* One conversation written in the Direct-paste layout and in the          *)
(* Downloaded layout (the examples at the head of part_003 and of          *)
(* cleaner-downloaded.ts), each given to detectAndClean in turn.           *)
(***************************************************************************)
Names == { <<"A", "l", " ", "B", "o">>, <<"C", "y">>, <<"A", "*", "B">>, <<>> }
Sayings == { <<>>,
             << <<"h", "i">> >>,
             << <<"h", "i">>, <<>>, <<" ", "y", "o", " ">> >>,
             << TsLine >> }
\* "10:30:45 AM → https://teams.microsoft.com/l/message/..."
DirectPasteStamp ==
    <<"1", ":", "2", "3", ":", "4", "5", " ", "A", "M", " ", "→", " ">> \o HttpsTeams
        \o <<"/", "l", "/", "1">>
\* "**John Smith** 10:30 AM"
DownloadedHeader(name) ==
    <<"*", "*">> \o name \o <<"*", "*", " ", "1", ":", "2", "3", " ", "A", "M">>

\* the lines of a conversation in each layout, a blank line between turns
RECURSIVE LinesOf(_, _)
LinesOf(turns, layout) ==
    IF turns = <<>> THEN <<>>
    ELSE LET head == IF layout = DirectPaste
                     THEN <<turns[1].name, DirectPasteStamp>>
                     ELSE <<DownloadedHeader(turns[1].name)>>
             rest == LinesOf(Tail(turns), layout)
         IN  head \o turns[1].says \o (IF rest = <<>> THEN <<>> ELSE << <<>> >> \o rest)
Render(turns, layout) == Join(LinesOf(turns, layout))

\* one more turn is spoken
Say ==
    /\ pc = "idle"
    /\ Len(conv) < MaxTurns
    /\ \E n \in Names, l \in Sayings : conv' = Append(conv, [name |-> n, says |-> l])
    /\ UNCHANGED <<frame, calls, answer, other, overlapped, meeting, plugin>>

\* detector.detectAndClean(the conversation in the Direct-paste layout)
CallOnDirectPaste ==
    /\ pc = "idle"
    /\ content' = Render(conv, DirectPaste)
    /\ probe' = 1
    /\ cleanCalls' = <<>>
    /\ pc' = "detect"
    /\ UNCHANGED <<selected, lines, i, cleaned, result, pass, firstEntries>>
    /\ UNCHANGED locals
    /\ UNCHANGED outside

\* the first call has returned: its value is kept in answer, and
\* detector.detectAndClean(the conversation in the Downloaded layout) starts
CallOnDownloaded ==
    /\ pc = "done"
    /\ answer.call = "none"
    /\ answer' = [call |-> "detectAndClean", direct |-> result]
    /\ content' = Render(conv, Downloaded)
    /\ probe' = 1
    /\ cleanCalls' = <<>>
    /\ pc' = "detect"
    /\ UNCHANGED <<selected, lines, i, cleaned, result, pass, firstEntries>>
    /\ UNCHANGED locals
    /\ UNCHANGED <<calls, other, overlapped, conv, meeting, plugin>>

NextRender ==
    \/ Say
    \/ CallOnDirectPaste
    \/ CallOnDownloaded
    \/ Probe
    \/ DirectPasteStep
    \/ DownloadedStep
    \/ DocxStep
    \/ SimpleStep
    \/ CleanReturn

SpecRender == Init /\ [][NextRender]_vars

(***************************************************************************)
(* canHandle of each cleaner called on short texts that hold the pieces of *)
(* the signatures, alone and combined.                                     *)
(***************************************************************************)
ProbeLines == {
    <<>>,
    <<" ">>,
    <<" ", " ", "h", "i">>,
    <<"h", "i">>,
    <<"A", "l", " ", "1", ":", "2", "3", " ", "A", "M">>,
    <<"*", "*", "A", "l", "*", "*", " ", "1", ":", "2", "3", " ", "A", "M">>,
    <<"<", "b", ">", "A", "l", "<", "/", "b", ">", " ", "1", ":", "2", "3", " ", "A", "M">>,
    <<"*", "*", "A", "l", "*", "*">>,
    <<"1", ":", "2", "3", ":", "4", "5", " ", "A", "M">>,
    <<"1", ":", "2", "3", ":", "4", "5", " ", "a", "m">>,
    <<"→">>,
    <<"→", " ", "s", "e", "e">>,
    HttpsTeams,
    <<"→", " ">> \o HttpsTeams }
ProbeTexts == {Join(ls) : ls \in UNION {[1..n -> ProbeLines] : n \in 1..MaxProbeLines}}

\* cleaner.canHandle(T), types.ts:13; canHandle keeps no state, so one call
\* in a behaviour stands for every call
ProbeCanHandle ==
    /\ answer.call = "none"
    /\ \E c \in Registered, T \in ProbeTexts :
           /\ content' = T
           /\ answer' = [call |-> "canHandle", cleaner |-> c, value |-> canHandle(c, T)]
    /\ UNCHANGED <<pc, probe, selected, lines, i, cleanCalls, cleaned, result, pass,
                   firstEntries, locals>>
    /\ UNCHANGED <<calls, other, overlapped, conv, meeting, plugin>>

NextProbe == ProbeCanHandle

SpecProbe == Init /\ [][NextProbe]_vars

(***************************************************************************)
(* SimpleTranscriptCleaner.clean called on short texts whose lines hold    *)
(* the three speaker forms, alone and overlapping, and the timestamps that *)
(* removeTimestamps strips.                                                *)
(***************************************************************************)
SimpleLines == {
    <<>>,
    <<"h", "i">>,
    <<"A", "l", " ", "B", "o", ":", " ", "h", "i">>,
    <<"A", "l", " ", "-", " ", "B", "o", ":", " ", "h", "i">>,
    <<"A", "l", " ", "B", "o", " ", "-", " ", "h", "i">>,
    <<"A", "l", " ", "B", "o", " ", "-">>,
    <<"A", "l", " ", "-">>,
    <<"A", "l", " ", "B", "o">>,
    <<"[", "1", ":", "2", "3", "]", " ", "h", "i">>,
    <<"(", "1", ":", "2", "3", ":", "4", "5", ")", " ", "C", "y", ":", " ", "y", "o">>,
    <<"s", "o", " ", "1", ":", "2", "3", " ", "p", "m">>,
    <<"1", ":", "2", "3", " ", "o", "k">>,
    <<"C", "y", ":">> }
SimpleTexts == {Join(ls) : ls \in UNION {[1..n -> SimpleLines] : n \in 1..MaxSimpleLines}}

\* new SimpleTranscriptCleaner().clean(T), cleaner-simple.ts:29-31
CallSimpleClean ==
    /\ pc = "idle"
    /\ \E T \in SimpleTexts :
           /\ content' = T
           /\ EnterClean(Simple, T, <<>>)
    /\ selected' = Simple
    /\ pass' = 2
    /\ pc' = "clean"
    /\ UNCHANGED <<probe, cleaned, result, firstEntries>>
    /\ UNCHANGED outside

NextSimple ==
    \/ CallSimpleClean
    \/ SimpleStep
    \/ CleanReturn

SpecSimple == Init /\ [][NextSimple]_vars

(***************************************************************************)
(* GeneralMeetingHandler (src/src/handlers/general.ts): process(file) on   *)
(* one meeting note.  The handler owns the detector; cleanTranscript calls *)
(* detectAndClean on the text of the note's Transcript section and writes  *)
(* the result back.                                                        *)
(***************************************************************************)
CopilotSummaryTitle == <<"#", " ", "C", "o", "p", "i", "l", "o", "t", " ", "S", "u", "m", "m", "a", "r", "y">>
TranscriptTitle == <<"#", " ", "T", "r", "a", "n", "s", "c", "r", "i", "p", "t">>
AttendeesTitle == <<"#", " ", "A", "t", "t", "e", "n", "d", "e", "e", "s">>
UnifiedSummaryTitle == <<"#", " ", "U", "n", "i", "f", "i", "e", "d", " ", "S", "u", "m", "m", "a", "r", "y">>
TranscriptSummaryTitle == <<"#", " ", "T", "r", "a", "n", "s", "c", "r", "i", "p", "t", " ", "S", "u", "m", "m", "a", "r", "y">>
SummaryTitle == <<"#", " ", "S", "u", "m", "m", "a", "r", "y">>

\* # Title\s*\n
Heading(title) == Cat(<<Lit(title), Star(RS), Lit(<<"\n">>)>>)
\* (?=\n#|$)
SectionEnd == {Lit(<<"\n", "#">>), Eol}
\* (?=\n+#\s)
AttendeesEnd == {Cat(<<Plus(Lit(<<"\n">>)), Lit(<<"#">>), RS>>)}
AheadAt(alts, s, j) == \E r \in alts : Ends(r, s, j) # {}

\* content.match(/pre([\s\S]*?)(?=ahead)/): the leftmost start; for it the
\* longest pre (its \s* is greedy) after which the lookahead holds somewhere,
\* and the shortest group up to a place where it holds
MatchSection(pre, ahead, s) ==
    LET ok(p) == {e \in Ends(pre, s, p) : \E j \in e..(Len(s) + 1) : AheadAt(ahead, s, j)}
        starts == {p \in 1..(Len(s) + 1) : ok(p) # {}}
    IN  IF starts = {} THEN [found |-> FALSE]
        ELSE LET i0 == Min(starts)
                 e == Max(ok(i0))
             IN  [found |-> TRUE, index |-> i0, from |-> e,
                  to |-> Min({j \in e..(Len(s) + 1) : AheadAt(ahead, s, j)})]
\* match[1]
Captured(m, s) == SubSeq(s, m.from, m.to - 1)
\* content.replace(re, with) for the match m of re
ReplaceMatch(m, s, with) == SubSeq(s, 1, m.index - 1) \o with \o SubSeq(s, m.to, Len(s))

\* general.ts:69-75
hasCopilotSummary(text) ==
    LET summaryMatch == MatchSection(Heading(CopilotSummaryTitle), SectionEnd, text)
    IN  IF ~summaryMatch.found THEN FALSE
        ELSE Len(Trim(Captured(summaryMatch, text))) > 0

\* variant: the summary already present is not looked at
ShouldClean_IgnoreSummary(hasSummaryNow, setting) == setting

\* general.ts:49  if (!hasCopilotSummary && this.settings.autoCleanTranscript)
ShouldClean(hasSummaryNow, setting) == ~hasSummaryNow /\ setting

\* general.ts:84  /!\[\[(SCR-[^\]]+\.png)\]\]/
screenshotPattern ==
    Cat(<<Lit(<<"!", "[", "[", "S", "C", "R", "-">>), Plus(NCls({"]"})), Lit(<<".", "p", "n", "g", "]", "]">>)>>)

\* the pieces a note is made of: sections empty and filled, transcripts in
\* each of the four formats, an Attendees section with a screenshot
Sections == {
    <<"#", " ", "A", "t", "t", "e", "n", "d", "e", "e", "s", "\n", "\n">>,
    <<"#", " ", "A", "t", "t", "e", "n", "d", "e", "e", "s", "\n", "!", "[", "[", "S", "C", "R", "-", "1", ".", "p", "n", "g", "]", "]", "\n">>,
    <<"#", " ", "C", "o", "p", "i", "l", "o", "t", " ", "S", "u", "m", "m", "a", "r", "y", "\n">>,
    <<"#", " ", "C", "o", "p", "i", "l", "o", "t", " ", "S", "u", "m", "m", "a", "r", "y", "\n", "o", "k", "\n">>,
    <<"#", " ", "T", "r", "a", "n", "s", "c", "r", "i", "p", "t", "\n">>,
    <<"#", " ", "T", "r", "a", "n", "s", "c", "r", "i", "p", "t", "\n", "h", "i", "\n">>,
    <<"#", " ", "T", "r", "a", "n", "s", "c", "r", "i", "p", "t", "\n", "h", "e", "l", "l", "o", " ", "t", "h", "e", "r", "e", "\n">>,
    <<"#", " ", "T", "r", "a", "n", "s", "c", "r", "i", "p", "t", "\n", "*", "*", "A", "l", "*", "*", " ", "1", ":", "2", "3", " ", "A", "M", "\n", "h", "i", "\n">>,
    <<"#", " ", "T", "r", "a", "n", "s", "c", "r", "i", "p", "t", "\n", "C", "y", "\n", "1", ":", "2", "3", ":", "4", "5", " ", "A", "M", " ", "→", "h", "t", "t", "p", "s", ":", "/", "/", "t", "e", "a", "m", "s", ".", "m", "i", "c", "r", "o", "s", "o", "f", "t", ".", "c", "o", "m", "\n", "y", "o", "\n">>,
    <<"#", " ", "T", "r", "a", "n", "s", "c", "r", "i", "p", "t", "\n", "A", "l", " ", "B", "o", " ", "1", ":", "2", "3", " ", "A", "M", "\n", " ", " ", "h", "i", "\n">> }
RECURSIVE Concat(_)
Concat(ps) == IF ps = <<>> THEN <<>> ELSE Head(ps) \o Concat(Tail(ps))
Notes == {Concat(ps) : ps \in UNION {[1..n -> Sections] : n \in 1..MaxSections}}

\* what extractFromScreenshots / extractFromContent can return for the note:
\* the names come from Copilot's reading of a screenshot the note refers to;
\* no note of the model holds [Name] or **Name:** text for extractFromContent
AttendeeNames(text) ==
    IF Test(screenshotPattern, text) THEN {<<>>, <<<<"A", "l", " ", "B", "o">>>>} ELSE {<<>>}
\* general.ts:268-276: a line of the list, with or without a profile
AttendeeLine(name, linked) ==
    IF linked THEN <<"-", " ">> \o <<"[", "[", "P", "e", "o", "p", "l", "e", "/">> \o name \o <<"]", "]">>
    ELSE <<"-", " ">> \o name
\* general.ts:278  (one name)
attendeesContent(name, linked) ==
    <<"\n", "#", "#", " ", "I", "n", " ", "M", "e", "e", "t", "i", "n", "g", " ", "(", "1", ")", "\n">> \o AttendeeLine(name, linked) \o <<"\n">>
\* general.ts:250-295 updateAttendeesSection: the new text of the note
updateAttendeesSection(text, name, linked) ==
    LET m == MatchSection(Heading(AttendeesTitle), AttendeesEnd, text)
    IN  IF m.found
        THEN ReplaceMatch(m, text, AttendeesTitle \o attendeesContent(name, linked) \o <<"\n">>)
        ELSE text

\* general.ts:440-449: the Summary section replaced, or appended
WriteSummary(text, summary) ==
    LET m == MatchSection(Cat(<<Lit(SummaryTitle), Star(RS), Lit(<<"\n">>)>>), SectionEnd, text)
        section == SummaryTitle \o <<"\n", "\n">> \o summary
    IN  IF m.found THEN ReplaceMatch(m, text, section \o <<"\n", "\n">>)
        ELSE text \o <<"\n", "\n">> \o section \o <<"\n">>
\* general.ts:403-415 contentToSummarize
contentToSummarize(text) ==
    LET cs == MatchSection(Heading(CopilotSummaryTitle), SectionEnd, text)
        tr == MatchSection(Heading(TranscriptTitle), SectionEnd, text)
    IN  IF cs.found /\ Trim(Captured(cs, text)) # <<>> THEN Trim(Captured(cs, text))
        ELSE IF tr.found /\ Trim(Captured(tr, text)) # <<>> THEN Trim(Captured(tr, text))
        ELSE <<>>

\* general.ts:348-359 hasUnifiedSummary, hasTranscript
hasUnifiedSummary(text) ==
    LET m == MatchSection(Heading(UnifiedSummaryTitle), SectionEnd, text)
    IN  m.found /\ Len(Trim(Captured(m, text))) > 20
hasTranscript(text) ==
    LET m == MatchSection(Heading(TranscriptTitle), SectionEnd, text)
    IN  m.found /\ Len(Trim(Captured(m, text))) > 20
\* the section replaced where its heading is found, else put in front of the
\* first heading `before', else left out (general.ts:603-615, 621-630)
PutSection(text, title, body, before) ==
    LET section == title \o <<"\n", "\n">> \o body \o <<"\n", "\n">>
        m == MatchSection(Heading(title), SectionEnd, text)
        at == Starts(Heading(before), text)
    IN  IF m.found THEN ReplaceMatch(m, text, section)
        ELSE IF at # {}
             THEN SubSeq(text, 1, Min(at) - 1) \o section \o SubSeq(text, Min(at), Len(text))
             ELSE text
\* general.ts:592-634
updateSummarySections(text, unifiedSummary, transcriptSummary) ==
    PutSection(PutSection(text, TranscriptSummaryTitle, transcriptSummary, TranscriptTitle),
               UnifiedSummaryTitle, unifiedSummary, CopilotSummaryTitle)
\* general.ts:392-456 generateStandardSummary; summary is NULL when the skill
\* is not found
generateStandardSummary(text, summary) ==
    IF summary = NULL \/ Len(contentToSummarize(text)) < 20 THEN text
    ELSE WriteSummary(text, summary)
\* general.ts:364-388 generateSummary, general.ts:460-493
\* generateEnhancedSummary; combined is NULL when Copilot gives no transcript
\* summary or no unified summary, and the standard workflow is taken
generateSummary(text, summary, combined) ==
    IF hasUnifiedSummary(text) THEN text
    ELSE IF hasCopilotSummary(text) /\ hasTranscript(text) /\ combined # NULL
         THEN updateSummarySections(text, combined, summary)
         ELSE generateStandardSummary(text, summary)

\* the user writes the note
OpenNote ==
    /\ stage = "idle"
    /\ file = NULL
    /\ file' \in Notes
    /\ UNCHANGED <<autoCleanTranscript, stage, hasSummary, steps, opened>>
    /\ UNCHANGED frame
    /\ UNCHANGED <<calls, answer, other, overlapped, conv, plugin>>

\* settings tab, part_000:157-160: the toggle, at any moment
SetAutoClean ==
    /\ stage \notin {"complete", "error"}
    /\ autoCleanTranscript' = ~autoCleanTranscript
    /\ UNCHANGED <<file, stage, hasSummary, steps, opened>>
    /\ UNCHANGED frame
    /\ UNCHANGED <<calls, answer, other, overlapped, conv, plugin>>

\* process(file), general.ts:34-45: the note read, hasCopilotSummary taken,
\* 'Extracting attendees...' shown
Process ==
    /\ stage = "idle"
    /\ file # NULL
    /\ opened' = file
    /\ hasSummary' = hasCopilotSummary(file)
    /\ steps' = <<"Extracting attendees...">>
    /\ stage' = "attendees"
    /\ UNCHANGED <<file, autoCleanTranscript>>
    /\ UNCHANGED frame
    /\ UNCHANGED <<calls, answer, other, overlapped, conv, plugin>>

\* general.ts:46-56: processAttendees returns (80-112, with the update of the
\* Attendees section when names were extracted), then the test of line 49
\* sends process() to cleanTranscript or to generateSummary
ProcessAttendees ==
    /\ stage = "attendees"
    /\ \E names \in AttendeeNames(opened), linked \in BOOLEAN :
           file' = IF names = <<>> THEN file
                   ELSE updateAttendeesSection(file, names[1], linked)
    /\ IF ShouldClean(hasSummary, autoCleanTranscript)
       THEN /\ steps' = Append(steps, "Cleaning transcript...")
            /\ stage' = "cleaning"
       ELSE /\ steps' = Append(steps, "Generating summary...")
            /\ stage' = "summary"
    /\ UNCHANGED <<autoCleanTranscript, hasSummary, opened>>
    /\ UNCHANGED frame
    /\ UNCHANGED <<calls, answer, other, overlapped, conv, plugin>>

\* cleanTranscript, general.ts:313-331: the note read again, the Transcript
\* section extracted; without a section of 10 characters or more it returns
\* and process() goes on to the summary, else detectAndClean starts
CleanTranscript ==
    /\ stage = "cleaning"
    /\ pc = "idle"
    /\ LET transcriptMatch == MatchSection(Heading(TranscriptTitle), SectionEnd, file)
           transcriptContent == IF transcriptMatch.found
                                THEN Trim(Captured(transcriptMatch, file)) ELSE <<>>
       IN  IF ~transcriptMatch.found \/ Len(transcriptContent) < 10
           THEN /\ steps' = Append(steps, "Generating summary...")
                /\ stage' = "summary"
                /\ UNCHANGED frame
           ELSE /\ content' = transcriptContent
                /\ probe' = 1
                /\ pass' = 1
                /\ cleanCalls' = <<>>
                /\ pc' = "detect"
                /\ stage' = "detecting"
                /\ UNCHANGED steps
                /\ UNCHANGED <<selected, lines, i, cleaned, result, firstEntries>>
                /\ UNCHANGED locals
    /\ UNCHANGED <<file, autoCleanTranscript, hasSummary, opened>>
    /\ UNCHANGED <<calls, answer, other, overlapped, conv, plugin>>

\* cleanTranscript, general.ts:335-342: detectAndClean has returned; the
\* section is replaced and the note written, then process() shows
\* 'Generating summary...'
ReplaceTranscript ==
    /\ stage = "detecting"
    /\ pc = "done"
    /\ LET m == MatchSection(Heading(TranscriptTitle), SectionEnd, file)
       IN  file' = ReplaceMatch(m, file,
                       TranscriptTitle \o <<"\n", "\n">> \o result.cleaned \o <<"\n", "\n">>)
    /\ steps' = Append(steps, "Generating summary...")
    /\ stage' = "summary"
    /\ UNCHANGED <<autoCleanTranscript, hasSummary, opened>>
    /\ UNCHANGED frame
    /\ UNCHANGED <<calls, answer, other, overlapped, conv, plugin>>

\* process(), general.ts:55-59: generateSummary returns, 'Complete!' is shown;
\* what Copilot answers is the environment's choice
GenerateSummary ==
    /\ stage = "summary"
    /\ \E summary \in {NULL, <<"o", "k">>}, combined \in {NULL, <<"a", "l", "l">>} :
           /\ (combined # NULL => summary # NULL)
           /\ file' = generateSummary(file, summary, combined)
    /\ steps' = Append(steps, "Complete!")
    /\ stage' = "complete"
    /\ UNCHANGED <<autoCleanTranscript, hasSummary, opened>>
    /\ UNCHANGED frame
    /\ UNCHANGED <<calls, answer, other, overlapped, conv, plugin>>

\* general.ts:60-63: a read, a write or Copilot throws; the error is shown
\* and rethrown
Throw ==
    /\ \/ stage \in {"attendees", "cleaning", "summary"}
       \/ stage = "detecting" /\ pc = "done"
    /\ steps' = Append(steps, "Error processing meeting")
    /\ stage' = "error"
    /\ UNCHANGED <<file, autoCleanTranscript, hasSummary, opened>>
    /\ UNCHANGED frame
    /\ UNCHANGED <<calls, answer, other, overlapped, conv, plugin>>

NextMeeting ==
    \/ OpenNote
    \/ SetAutoClean
    \/ Process
    \/ ProcessAttendees
    \/ CleanTranscript
    \/ Probe
    \/ DirectPasteStep
    \/ DownloadedStep
    \/ DocxStep
    \/ SimpleStep
    \/ CleanReturn
    \/ ReplaceTranscript
    \/ GenerateSummary
    \/ Throw

SpecMeeting == Init /\ [][NextMeeting]_vars

(***************************************************************************)
(* Properties.                                                             *)
(***************************************************************************)
\* the priority order the specification states
PriorityOrder == <<DirectPaste, Downloaded, Docx, Simple>>
\* the same order with Docx and Direct-paste exchanged
SwappedOrder == <<Docx, Downloaded, DirectPaste, Simple>>
IndexIn(order, c) == Min({k \in 1..Len(order) : order[k] = c})

\* detect has just returned (first call, before clean's first line)
Detected == pc = "clean" /\ pass = 1 /\ i = 1
\* detectAndClean has returned
Returned == pc = "done" /\ pass = 1
\* the lines of the last clean()'s return value
OutLines == Split(cleaned)

\* C1: whatever the text, the empty string included, detect returns one of
\* the four cleaners the detector holds, never null or undefined.
C1_TotalDetection ==
    pc \in {"clean", "done"} =>
        /\ selected \in {DirectPaste, Downloaded, Docx, Simple}
        /\ \E k \in 1..Len(Cleaners) : Cleaners[k] = selected
C1_Witness == Detected /\ content = <<>> /\ selected = Simple

\* C2: detect returns the first cleaner, in the order Direct-paste,
\* Downloaded, Docx, Simple, whose canHandle accepts the text: the cleaner
\* returned accepts it and every earlier one rejects it; so Direct-paste is
\* returned whenever it accepts.
C2_FirstMatch ==
    Detected =>
        /\ selected \in {DirectPaste, Downloaded, Docx, Simple}
        /\ canHandle(selected, content)
        /\ \A k \in 1..(IndexIn(PriorityOrder, selected) - 1) :
               ~canHandle(PriorityOrder[k], content)
        /\ selected # DirectPaste => ~DirectPaste_canHandle(content)
C2_Witness ==
    /\ Detected
    /\ selected = DirectPaste
    /\ Test(leadingWhitespace, content)
    /\ Test(HMM_AMPM, content)
    /\ Test(boldPattern, content)

\* C3: there is a text (of two pieces) on which the detector with Docx and
\* Direct-paste exchanged selects another cleaner than the detector as built.
C3_OrderSensitivity ==
    pc = "idle" =>
        \E a, b \in Vocab :
            detect(PriorityOrder, Join(<<a, b>>)) # detect(SwappedOrder, Join(<<a, b>>))
C3_Witness ==
    /\ Detected
    /\ selected = DirectPaste
    /\ detect(SwappedOrder, content) # selected

\* C4: the selected cleaner applied to its own output parses the entries it
\* produced the first time and returns the same text.
C4_Idempotence ==
    (pc = "done" /\ pass = 2) =>
        /\ entries = firstEntries
        /\ cleaned = result.cleaned

\* C5: detectAndClean(T) reports the name of detect(T) and the text that
\* detect(T).clean(T) returned, and calls clean once, on that cleaner.
C5_Composition ==
    Returned =>
        LET detected == detect(Cleaners, content)
        IN  /\ result.cleaner = getName(detected)
            /\ result.cleaned = cleaned
            /\ cleanCalls = <<[cleaner |-> detected, arg |-> content]>>
C5_Witness ==
    /\ Returned
    /\ result.cleaner = "Teams Downloaded (Format 2)"
    /\ result.cleaned # <<>>

\* C6: no entry has an empty speaker, and every block of the output starts
\* with a non-empty speaker line.
C6_SpeakerNonEmpty ==
    /\ \A k \in 1..Len(entries) : entries[k].speaker # <<>>
    /\ (pc = "done" /\ cleaned # <<>>) =>
           /\ OutLines[1] # <<>>
           /\ \A k \in 1..Len(OutLines) :
                  OutLines[k] = <<>> => (k < Len(OutLines) /\ OutLines[k + 1] # <<>>)
\* a Downloaded header whose bold text is blank has been read, entries made
C6_Witness ==
    /\ Returned
    /\ selected = Downloaded
    /\ Len(entries) > 0
    /\ \E k \in 1..Len(lines) : extractSpeaker(Trim(lines[k])) = <<>>

\* C7: every entry has non-empty content, a header that received no content
\* makes no entry, and in the output no speaker line stands without a
\* content line after it.
C7_ContentNonEmpty ==
    /\ \A k \in 1..Len(entries) : Trim(entries[k].content) # <<>>
    /\ pc = "done" =>
           /\ Len(entries) = Cardinality({k \in 1..Len(headers) : headers[k].got > 0})
           /\ \A k \in 1..Len(OutLines) :
                  (OutLines[k] # <<>> /\ (k = 1 \/ OutLines[k - 1] = <<>>)) =>
                      (k < Len(OutLines) /\ OutLines[k + 1] # <<>>)
C7_Witness ==
    /\ Returned
    /\ selected = DirectPaste
    /\ Len(entries) > 0
    /\ \E k \in 1..Len(headers) : headers[k].got = 0

\* C8: a non-empty output does not end with a blank line.
C8_NoTrailingBlank ==
    (pc = "done" /\ cleaned # <<>>) =>
        /\ cleaned[Len(cleaned)] # "\n"
        /\ Trim(OutLines[Len(OutLines)]) # <<>>
C8_Witness == Returned /\ Len(entries) >= 2 /\ cleaned # <<>>

\* the headers that received content, in input order
RECURSIVE WithContent(_)
WithContent(hs) ==
    IF hs = <<>> THEN <<>>
    ELSE (IF hs[1].got > 0 THEN <<hs[1]>> ELSE <<>>) \o WithContent(Tail(hs))

\* C9: the k-th entry is the k-th header that received content, with that
\* header's speaker: input order, nothing merged or dropped.
C9_InputOrder ==
    /\ \A k \in 1..Len(origins) : \A j \in 1..(k - 1) : origins[j].hdr < origins[k].hdr
    /\ pc = "done" =>
           LET hc == WithContent(headers)
           IN  /\ Len(entries) = Len(hc)
               /\ Len(origins) = Len(hc)
               /\ \A k \in 1..Len(hc) :
                      /\ entries[k].speaker = hc[k].speaker
                      /\ origins[k].hdr = hc[k].line
\* one speaker twice, another speaker's entry in between
C9_Witness ==
    /\ Returned
    /\ selected \in {Downloaded, Docx}
    /\ Len(entries) = 3
    /\ entries[1].speaker = entries[3].speaker
    /\ entries[2].speaker # entries[1].speaker

\* C10: a line before the first speaker header is behind no entry, as
\* speaker or as content.
C10_OrphansDiscarded ==
    \A k \in 1..Len(origins) :
        /\ headers # <<>>
        /\ origins[k].hdr >= headers[1].line
        /\ \A j \in 1..Len(origins[k].lines) : origins[k].lines[j] >= headers[1].line
C10_Witness ==
    /\ Returned
    /\ selected \in {DirectPaste, Simple}
    /\ Len(entries) > 0
    /\ \E k \in 1..(headers[1].line - 1) : Trim(lines[k]) # <<>>

\* C11: the clean() of every cleaner returns a string on every text, the
\* empty text and a text without any speaker marker included, and the
\* string is empty when no entry was parsed.
C11_CleanTotal ==
    pc = "done" =>
        /\ cleaned # NULL
        /\ \A k \in 1..Len(cleaned) : cleaned[k] \in STRING
        /\ entries = <<>> => cleaned = <<>>
\* a Teams cleaner called on a text that holds no marker
C11_Witness ==
    /\ pc = "done"
    /\ pass = 2
    /\ selected = Docx
    /\ content = <<"h", "i">>
    /\ cleaned = <<>>

\* C12: whatever calls were made before on the same detector and cleaners,
\* detectAndClean(T) returns the name and the text that are a function of T
\* alone, those of a call on a fresh detector.
C12_DependsOnlyOnText ==
    (pc = "done" /\ pass = 1) => result = detectAndClean(content)
\* the call returns after two earlier calls, one of them canHandle or detect
C12_Witness ==
    /\ pc = "done"
    /\ pass = 1
    /\ calls >= 2
    /\ answer.call \in {"canHandle", "detect"}
    /\ result.cleaned # <<>>

\* C13: with the steps of two callers' calls on the shared detector
\* interleaved in any way, each call returns what it returns when it runs
\* alone: the name and text that are a function of its own argument.
C13_NoInterference ==
    /\ pc = "done" => result = detectAndClean(content)
    /\ other.pc = "done" => other.result = detectAndClean(other.content)
\* two calls on different texts, both returned, that were both inside the
\* loop of clean() at the same time
C13_Witness ==
    /\ pc = "done"
    /\ other.pc = "done"
    /\ overlapped
    /\ selected # other.selected
    /\ result.cleaned # <<>>
    /\ other.result.cleaned # <<>>

\* a line that matches no header pattern and no timestamp pattern
Plain(line) ==
    /\ ~Test(timestampPattern, line)
    /\ ~Test(HMM_AMPM, line)
    /\ ~Test(boldPattern, line)
    /\ ~Test(htmlPattern, line)
PlainTurns ==
    \A k \in 1..Len(conv) :
        /\ Plain(conv[k].name)
        /\ \A j \in 1..Len(conv[k].says) : Plain(conv[k].says[j])
\* the non-blank lines of a turn, trimmed
RECURSIVE Spoken(_)
Spoken(ls) ==
    IF ls = <<>> THEN <<>>
    ELSE (IF Trim(ls[1]) = <<>> THEN <<>> ELSE <<Trim(ls[1])>>) \o Spoken(Tail(ls))
\* name line, content lines, a blank line between the turns that said something
RECURSIVE CanonicalLines(_)
CanonicalLines(turns) ==
    IF turns = <<>> THEN <<>>
    ELSE LET rest == CanonicalLines(Tail(turns))
             block == <<Trim(turns[1].name)>> \o Spoken(turns[1].says)
         IN  IF Spoken(turns[1].says) = <<>> THEN rest
             ELSE IF rest = <<>> THEN block
             ELSE block \o << <<>> >> \o rest

\* C14 as stated: for every conversation whose names and content lines
\* match no header or timestamp pattern, the two layouts give the same text.
BothCleaned == pc = "done" /\ answer.call = "detectAndClean"
NamesRenderable ==
    \A k \in 1..Len(conv) :
        /\ Trim(conv[k].name) # <<>>
        /\ \A j \in 1..Len(conv[k].name) : conv[k].name[j] # "*"
RECURSIVE StartsAt(_)
StartsAt(k) ==
    IF k = 1 THEN 1
    ELSE StartsAt(k - 1) + 1 + Len(Split(entries[k - 1].content)) + 1

\* C18: the output is, entry after entry, the speaker on a line of its own,
\* then the content lines, none of them blank, with one blank line between
\* two entries and none after the last; the formatter of any of the four
\* cleaners gives this same text for these entries.
C18_CanonicalOutput ==
    pc = "done" =>
        /\ entries = <<>> => cleaned = <<>>
        /\ entries # <<>> =>
               Len(OutLines) = StartsAt(Len(entries)) + Len(Split(entries[Len(entries)].content))
        /\ \A k \in 1..Len(entries) :
               LET at   == StartsAt(k)
                   said == Split(entries[k].content)
               IN  /\ OutLines[at] = entries[k].speaker
                   /\ OutLines[at] # <<>>
                   /\ \A j \in 1..Len(said) : OutLines[at + j] = said[j] /\ said[j] # <<>>
                   /\ k < Len(entries) =>
                          /\ OutLines[at + Len(said) + 1] = <<>>
                          /\ OutLines[at + Len(said) + 2] # <<>>
        /\ DirectPaste_formatEntries(entries) = cleaned
        /\ Downloaded_formatEntries(entries) = cleaned
        /\ Docx_formatEntries(entries) = cleaned
        /\ Simple_formatEntries(entries) = cleaned
\* two entries returned, one of them with content on more than one line
C18_Witness ==
    /\ pc = "done"
    /\ Len(entries) >= 2
    /\ \E k \in 1..Len(entries) : Len(Split(entries[k].content)) >= 2
    /\ cleaned # <<>>

(***************************************************************************)
(* The signatures as the specification words them, read off the characters *)
(* of the text.                                                            *)
(***************************************************************************)
\* the characters of w stand at position a of s
HasAt(s, a, w) == a + Len(w) - 1 <= Len(s) /\ \A k \in 1..Len(w) : s[a + k - 1] = w[k]
\* n digits stand at position a
DigitsAt(s, a, n) == a + n - 1 <= Len(s) /\ \A k \in a..(a + n - 1) : s[k] \in Digit
\* whitespace, then AM or PM, from position a
MeridiemAt(s, a) ==
    \E w \in 1..(Len(s) - a) :
        /\ \A k \in a..(a + w - 1) : s[k] \in WS
        /\ s[a + w] \in {"A", "P"}
        /\ HasAt(s, a + w + 1, <<"M">>)
\* H:MM or HH:MM at position a, the hour of h digits
HourMinuteAt(s, a, h) ==
    DigitsAt(s, a, h) /\ HasAt(s, a + h, <<":">>) /\ DigitsAt(s, a + h + 1, 2)
\* an H:MM AM|PM timestamp at position a
StampAt(s, a) == \E h \in 1..2 : HourMinuteAt(s, a, h) /\ MeridiemAt(s, a + h + 3)
ContainsStamp(s) == \E a \in 1..Len(s) : StampAt(s, a)
\* an H:MM:SS AM|PM timestamp somewhere
ContainsSecondsStamp(s) ==
    \E a \in 1..Len(s), h \in 1..2 :
        /\ HourMinuteAt(s, a, h)
        /\ HasAt(s, a + h + 3, <<":">>)
        /\ DigitsAt(s, a + h + 4, 2)
        /\ MeridiemAt(s, a + h + 6)
\* an arrow, optional whitespace, the Teams permalink prefix
ContainsArrowLink(s) ==
    \E a \in 1..Len(s), w \in 0..Len(s) :
        /\ s[a] = "→"
        /\ a + w <= Len(s)
        /\ \A k \in (a + 1)..(a + w) : s[k] \in WS
        /\ HasAt(s, a + w + 1, HttpsTeams)
\* open, one or more characters other than stop, close: ends at the
\* positions returned
EmphasisEnds(s, a, open, stop, close) ==
    {a + Len(open) + n + Len(close) : n \in
        {n \in 1..Len(s) :
            /\ HasAt(s, a, open)
            /\ a + Len(open) + n - 1 <= Len(s)
            /\ \A k \in (a + Len(open))..(a + Len(open) + n - 1) : s[k] # stop
            /\ HasAt(s, a + Len(open) + n, close)}}
\* bold text, whitespace, an H:MM AM|PM timestamp
ContainsBoldStamp(s, open, stop, close) ==
    \E a \in 1..Len(s) : \E b \in EmphasisEnds(s, a, open, stop, close) :
        \E w \in 1..Len(s) :
            /\ b + w - 1 <= Len(s)
            /\ \A k \in b..(b + w - 1) : s[k] \in WS
            /\ StampAt(s, b + w)
ContainsAsteriskBoldStamp(s) == ContainsBoldStamp(s, <<"*", "*">>, "*", <<"*", "*">>)
ContainsHtmlBoldStamp(s) == ContainsBoldStamp(s, <<"<", "b", ">">>, "<", <<"<", "/", "b", ">">>)
ContainsAsteriskBold(s) ==
    \E a \in 1..Len(s) : EmphasisEnds(s, a, <<"*", "*">>, "*", <<"*", "*">>) # {}
ContainsTeamsLink(s) == \E a \in 1..Len(s) : HasAt(s, a, TeamsHost)
\* some line starts with two whitespace characters
HasIndentedLine(s) ==
    \E k \in 1..Len(Split(s)) :
        /\ Len(Split(s)[k]) >= 2
        /\ Split(s)[k][1] \in WS
        /\ Split(s)[k][2] \in WS

Asked(c) == answer.call = "canHandle" /\ answer.cleaner = c

\* C15: Direct-paste accepts a text exactly when it holds an H:MM:SS AM|PM
\* timestamp and an arrow followed, after optional whitespace, by the Teams
\* permalink prefix, each anywhere; one of the two alone is rejected.
C15_DirectPasteSignature ==
    Asked(DirectPaste) =>
        (answer.value <=> (ContainsSecondsStamp(content) /\ ContainsArrowLink(content)))
\* accepted with the timestamp on one line and the arrow and link on another
C15_Witness ==
    /\ Asked(DirectPaste)
    /\ answer.value
    /\ Len(Split(content)) = 2
    /\ ContainsSecondsStamp(Split(content)[1])
    /\ ContainsArrowLink(Split(content)[2])

\* C16: Downloaded accepts every text that holds bold text, whitespace and an
\* H:MM AM|PM timestamp, the bold written with paired asterisks or with the
\* HTML tag.
C16_BothBoldFormsDetected ==
    (Asked(Downloaded)
        /\ (ContainsAsteriskBoldStamp(content) \/ ContainsHtmlBoldStamp(content)))
    => answer.value

\* C17: Docx accepts a text exactly when it holds an H:MM AM|PM timestamp
\* and a line that starts with two whitespace characters, and holds neither
\* a Teams link nor paired-asterisk bold; without such a line it is rejected.
C17_DocxSignature ==
    Asked(Docx) =>
        (answer.value <=>
            /\ ContainsStamp(content)
            /\ HasIndentedLine(content)
            /\ ~ContainsTeamsLink(content)
            /\ ~ContainsAsteriskBold(content))

(***************************************************************************)
(* The meeting note, read line by line.                                    *)
(***************************************************************************)
\* the text w occurs in s
Contains(s, w) == \E a \in 1..(Len(s) + 1) : HasAt(s, a, w)
\* line k of the note is the heading: the title, then nothing but blanks
IsHeading(note, k, title) == TrimRight(Split(note)[k]) = title
\* the note has a Copilot Summary heading under which, before the next line
\* that starts a heading, some line is not blank
CopilotSummaryWithContent(note) ==
    \E k \in 1..Len(Split(note)) :
        /\ IsHeading(note, k, CopilotSummaryTitle)
        /\ \E j \in (k + 1)..Len(Split(note)) :
               /\ Trim(Split(note)[j]) # <<>>
               /\ \A n \in (k + 1)..j : ~(Split(note)[n] # <<>> /\ Split(note)[n][1] = "#")

\* C19: when detectAndClean has returned an empty text for the transcript it
\* was given, the note still holds that transcript once cleanTranscript is
\* over.
C19_OriginalKeptWhenCleanedEmpty ==
    (stage = "summary" /\ pc = "done" /\ result.cleaned = <<>>) => Contains(file, content)

\* C20: process() enters the cleaning step only from the attendee step, with
\* no Copilot Summary with content in the note it read and the setting on;
\* detectAndClean runs and the Transcript section is written only inside the
\* cleaning step; when the note has such a summary or the setting is off, the
\* step after attendee extraction is the summary (or the error report).
C20_CleaningOnlyWhenDue ==
    [][/\ (stage # "cleaning" /\ stage' = "cleaning") =>
              /\ stage = "attendees"
              /\ ~CopilotSummaryWithContent(opened)
              /\ autoCleanTranscript
       /\ (pc' # pc \/ result' # result \/ stage' = "detecting") =>
              stage \in {"cleaning", "detecting"}
       /\ (stage' = "summary" /\ pc' = "done" /\ stage # "summary") =>
              /\ stage = "detecting"
              /\ "Cleaning transcript..." = steps[2]
       /\ (stage = "attendees" /\ (CopilotSummaryWithContent(opened) \/ ~autoCleanTranscript)) =>
              /\ stage' \in {"attendees", "summary", "error"}
              /\ stage' = "summary" =>
                     steps' = <<"Extracting attendees...", "Generating summary...">>
      ]_vars
\* a note with a Copilot Summary heading and nothing under it has been
\* cleaned: the transcript in the note is now the canonical text
C20_Witness ==
    /\ stage = "summary"
    /\ pc = "done"
    /\ Contains(opened, CopilotSummaryTitle)
    /\ result.cleaned # <<>>
    /\ file # opened
    /\ Contains(file, result.cleaned)
    /\ steps = <<"Extracting attendees...", "Cleaning transcript...", "Generating summary...">>

(***************************************************************************)
(* The parsers, line by line.                                              *)
(***************************************************************************)
\* the first position from a on that holds no whitespace (Len + 1 if none)
NextNonBlank(s, a) == Min({k \in a..(Len(s) + 1) : k = Len(s) + 1 \/ s[k] \notin WS})
\* the line starts with H:MM:SS, whitespace, AM or PM, then an arrow and the
\* Teams permalink prefix, each after optional whitespace
StampLine(l) ==
    \E h \in 1..2 :
        /\ HourMinuteAt(l, 1, h)
        /\ HasAt(l, h + 4, <<":">>)
        /\ DigitsAt(l, h + 5, 2)
        /\ h + 7 <= Len(l)
        /\ l[h + 7] \in WS
        /\ LET m == NextNonBlank(l, h + 7)
               a == NextNonBlank(l, m + 2)
           IN  /\ (HasAt(l, m, <<"A", "M">>) \/ HasAt(l, m, <<"P", "M">>))
               /\ HasAt(l, a, <<"→">>)
               /\ HasAt(l, NextNonBlank(l, a + 1), HttpsTeams)
\* line k of the input was taken as a speaker header
IsHeader(k) == \E h \in 1..Len(headers) : headers[h].line = k
\* the input lines that became content of some entry
ContentOrigins == UNION {{origins[e].lines[j] : j \in 1..Len(origins[e].lines)} : e \in 1..Len(origins)}

\* C21: in the Direct-paste cleaner a non-empty line that is no timestamp
\* line is a speaker header exactly when the next line is a timestamp line,
\* its name being the line; an entry is made only for a header that received
\* content; no timestamp line is content or speaker, in the entries or in
\* the output.
C21_DirectPasteSpeakers ==
    (pc = "done" /\ selected = DirectPaste) =>
        /\ \A k \in 1..Len(lines) :
               LET t == Trim(lines[k])
               IN  /\ (t # <<>> /\ ~StampLine(t)) =>
                          /\ IsHeader(k) <=> (k < Len(lines) /\ StampLine(Trim(lines[k + 1])))
                          /\ \A h \in 1..Len(headers) :
                                 headers[h].line = k => headers[h].speaker = t
                   /\ (t = <<>> \/ StampLine(t)) => (~IsHeader(k) /\ k \notin ContentOrigins)
        /\ Len(entries) = Cardinality({h \in 1..Len(headers) : headers[h].got > 0})
        /\ \A e \in 1..Len(entries) : ~StampLine(entries[e].speaker)
        /\ \A k \in 1..Len(OutLines) : ~StampLine(OutLines[k])
\* two headers, the first without content, the second with an entry, each
\* followed by its timestamp line
C21_Witness ==
    /\ pc = "done"
    /\ selected = DirectPaste
    /\ Len(headers) >= 2
    /\ headers[1].got = 0
    /\ Len(entries) >= 1
    /\ \A h \in 1..Len(headers) : StampLine(Trim(lines[headers[h].line + 1]))

\* the line holds bold text (asterisks or HTML tag), whitespace and an
\* H:MM AM|PM timestamp
BoldStampLine(l) == ContainsAsteriskBoldStamp(l) \/ ContainsHtmlBoldStamp(l)

\* C22: in the Downloaded cleaner every line that holds the bold+timestamp
\* pattern is a speaker header and nothing of it is content; content comes
\* only from lines that hold no such pattern.
C22_BoldStampLineIsHeader ==
    (pc = "done" /\ selected = Downloaded) =>
        \A k \in 1..Len(lines) :
            BoldStampLine(Trim(lines[k])) => (IsHeader(k) /\ k \notin ContentOrigins)

\* the positions q of the line at which an H:MM AM|PM timestamp stands with
\* whitespace just before it and, before that, a capital letter followed by
\* letters, whitespace, apostrophes or hyphens only
NameStampAt(l) ==
    {q \in 4..Len(l) :
        /\ l[1] \in Upper
        /\ \A k \in 2..(q - 1) : l[k] \in Upper \cup Lower \cup WS \cup {"'", "-"}
        /\ l[q - 1] \in WS
        /\ StampAt(l, q)}
\* the position after the AM or PM of the timestamp that stands at q
StampEnd(l, q) ==
    LET h == IF l[q + 1] = ":" THEN 1 ELSE 2
    IN  NextNonBlank(l, q + h + 3) + 2
\* the entries made for the header on line k
EntriesOf(k) == {e \in 1..Len(entries) : origins[e].hdr = k}

\* C23: in the Docx cleaner a trimmed line of the form name, whitespace,
\* H:MM AM|PM, trailing is a speaker header with that name; when the trailing
\* text is not blank the header has an entry whose first content line is the
\* trimmed trailing text, taken from the header line itself.
C23_DocxInlineContent ==
    (pc = "done" /\ selected = Docx) =>
        \A k \in 1..Len(lines) :
            LET t == Trim(lines[k])
            IN  NameStampAt(t) # {} =>
                    LET q == Min(NameStampAt(t))
                        name == TrimRight(SubSeq(t, 1, q - 1))
                        trailing == Trim(SubSeq(t, StampEnd(t, q), Len(t)))
                    IN  /\ \E h \in 1..Len(headers) :
                               headers[h].line = k /\ headers[h].speaker = name
                        /\ trailing = <<>> => k \notin ContentOrigins
                        /\ trailing # <<>> =>
                               /\ Cardinality(EntriesOf(k)) = 1
                               /\ \A e \in EntriesOf(k) :
                                      /\ entries[e].speaker = name
                                      /\ origins[e].lines[1] = k
                                      /\ Split(entries[e].content)[1] = trailing
\* a header with text after its timestamp and a content line after it
C23_Witness ==
    /\ pc = "done"
    /\ selected = Docx
    /\ \E e \in 1..Len(entries) :
           /\ Len(origins[e].lines) >= 2
           /\ origins[e].lines[1] = origins[e].hdr
           /\ NameStampAt(Trim(lines[origins[e].hdr])) # {}
           /\ Len(Split(entries[e].content)) >= 2

(***************************************************************************)
(* The three speaker forms of the Simple cleaner, read off the characters  *)
(* of the stripped line.                                                   *)
(***************************************************************************)
NameChars == Upper \cup Lower \cup WS \cup {"'", "-"}
\* the first position from a on whose character is not in S (Len + 1 if none)
FirstOutside(l, a, S) == Min({k \in a..(Len(l) + 1) : k = Len(l) + 1 \/ l[k] \notin S})
\* "Name: content": a capital, one or more name characters, a colon
ColonAt(l) == FirstOutside(l, 2, NameChars)
ColonForm(l) ==
    l # <<>> /\ l[1] \in Upper /\ ColonAt(l) >= 3 /\ HasAt(l, ColonAt(l), <<":">>)
\* "Name - content": a capital, name characters, the first dash from the
\* third character on, and text after it
DashAt(l) == {d \in 3..Len(l) : l[d] = "-" /\ \A k \in 2..(d - 1) : l[k] \in NameChars}
DashForm(l) ==
    /\ l # <<>>
    /\ l[1] \in Upper
    /\ DashAt(l) # {}
    /\ Trim(SubSeq(l, Min(DashAt(l)) + 1, Len(l))) # <<>>
\* two tokens in proper case at the start of the line
BareForm(l) ==
    /\ l # <<>>
    /\ l[1] \in Upper
    /\ LET a == FirstOutside(l, 2, Lower)
           b == NextNonBlank(l, a)
       IN  a >= 3 /\ b > a /\ b + 1 <= Len(l) /\ l[b] \in Upper /\ l[b + 1] \in Lower
\* what the first form that applies gives: the speaker and the inline content
FirstForm(l) ==
    IF ColonForm(l)
    THEN [speaker |-> Trim(SubSeq(l, 1, ColonAt(l) - 1)),
          inline |-> Trim(SubSeq(l, ColonAt(l) + 1, Len(l)))]
    ELSE IF DashForm(l)
    THEN [speaker |-> Trim(SubSeq(l, 1, Min(DashAt(l)) - 1)),
          inline |-> Trim(SubSeq(l, Min(DashAt(l)) + 1, Len(l)))]
    ELSE [speaker |-> l, inline |-> <<>>]
SimpleDone == pc = "done" /\ selected = Simple

\* C24: in the Simple cleaner a line is a speaker header exactly when its
\* stripped text has the colon form, the dash form or the bare two-token
\* form, and the first of these, in that order, that applies gives the
\* speaker and the inline content, whatever the later ones would give.
C24_FirstPatternWins ==
    SimpleDone =>
        \A k \in 1..Len(lines) :
            LET l == removeTimestamps(Trim(lines[k]))
                f == FirstForm(l)
            IN  IF Trim(lines[k]) # <<>> /\ (ColonForm(l) \/ DashForm(l) \/ BareForm(l))
                THEN /\ \E h \in 1..Len(headers) :
                            headers[h].line = k /\ headers[h].speaker = f.speaker
                     /\ f.inline = <<>> => k \notin ContentOrigins
                     /\ f.inline # <<>> =>
                            \E e \in EntriesOf(k) :
                                /\ entries[e].speaker = f.speaker
                                /\ origins[e].lines[1] = k
                                /\ Split(entries[e].content)[1] = f.inline
                ELSE ~IsHeader(k)
\* a line with both the colon and the dash form, and one with both the dash
\* and the bare form, have been read
C24_Witness ==
    /\ SimpleDone
    /\ Len(entries) = 2
    /\ \E k \in 1..Len(lines) :
           ColonForm(Trim(lines[k])) /\ DashForm(Trim(lines[k])) /\ IsHeader(k)
    /\ \E k \in 1..Len(lines) :
           ~ColonForm(Trim(lines[k])) /\ DashForm(Trim(lines[k])) /\ BareForm(Trim(lines[k]))

\* a capitalised name, then a dash with nothing after it
BareDash(l) ==
    /\ Len(l) >= 3
    /\ l[1] \in Upper
    /\ l[Len(l)] = "-"
    /\ \A k \in 2..(Len(l) - 1) : l[k] \in Upper \cup Lower \cup WS

\* C25: in the Simple cleaner a line whose stripped text is a name and a
\* dash with nothing after the dash is not a speaker header.
C25_BareDashNoSpeaker ==
    SimpleDone =>
        \A k \in 1..Len(lines) :
            BareDash(removeTimestamps(Trim(lines[k]))) => ~IsHeader(k)

\* [H:MM] or (H:MM), with or without seconds, somewhere in the line
EnclosedStamp(l, open, close) ==
    \E a \in 1..Len(l), h \in 1..2 :
        /\ HasAt(l, a, <<open>>)
        /\ HourMinuteAt(l, a + 1, h)
        /\ \/ HasAt(l, a + h + 4, <<close>>)
           \/ HasAt(l, a + h + 4, <<":">>) /\ DigitsAt(l, a + h + 5, 2)
                 /\ HasAt(l, a + h + 7, <<close>>)
\* H:MM and AM or PM in either case, whitespace between them or none
MeridiemStamp(l) ==
    \E a \in 1..Len(l), h \in 1..2 :
        /\ HourMinuteAt(l, a, h)
        /\ LET m == NextNonBlank(l, a + h + 3)
           IN  m + 1 <= Len(l) /\ l[m] \in {"A", "P", "a", "p"} /\ l[m + 1] \in {"M", "m"}
\* the line starts with H:MM or H:MM:SS and whitespace
LeadingStamp(l) ==
    \E h \in 1..2 :
        /\ HourMinuteAt(l, 1, h)
        /\ \/ h + 4 <= Len(l) /\ l[h + 4] \in WS
           \/ HasAt(l, h + 4, <<":">>) /\ DigitsAt(l, h + 5, 2)
                 /\ h + 7 <= Len(l) /\ l[h + 7] \in WS
AnyStamp(l) ==
    \/ EnclosedStamp(l, "[", "]")
    \/ EnclosedStamp(l, "(", ")")
    \/ MeridiemStamp(l)
    \/ LeadingStamp(l)

\* C26: in the Simple cleaner the content taken from a line that is no
\* speaker header is the stripped line, and no content line of the output
\* holds a bracketed, parenthesized, AM|PM or leading timestamp.
C26_ContentIsStripped ==
    SimpleDone =>
        \A e \in 1..Len(entries) :
            \A j \in 1..Len(origins[e].lines) :
                LET k == origins[e].lines[j]
                    piece == Split(entries[e].content)[j]
                IN  /\ ~AnyStamp(piece)
                    /\ k # origins[e].hdr => piece = removeTimestamps(Trim(lines[k]))

InCall == pc \in {"detect", "clean"}
\* one step of a running call: detect moves to the next cleaner or returns
\* one, clean moves to the next line of the same lines or returns
CallStep ==
    /\ pc = "detect" =>
           \/ pc' = "detect" /\ probe' = probe + 1 /\ content' = content
           \/ pc' = "clean" /\ i' = 1 /\ lines' = Split(content)
    /\ pc = "clean" =>
           \/ pc' = "clean" /\ i' = i + 1 /\ lines' = lines
           \/ pc' = "done" /\ i = Len(lines) + 1

\* the steps a running call has left at most: the cleaners detect has not
\* asked yet, the lines clean has not read yet, and the return
Remaining(at, asked, read, total) ==
    CASE at = "detect" -> (Len(Cleaners) - asked + 1) + total + 1
      [] at = "clean" -> (total - read + 1) + 1
      [] OTHER -> 0

\* C27: every call comes to its return in a number of steps bounded by the
\* length of its input: detect asks a cleaner of the list, at most the four
\* of them, one after another; clean reads the lines once, its position
\* moves on by one line at each step and it returns past the last line; no
\* step of a running call leaves as many steps to do as there were.
C27_CallsTerminate ==
    /\ [](pc = "detect" => probe \in 1..Len(Cleaners))
    /\ [](pc = "clean" => i \in 1..(Len(lines) + 1) /\ selected \in Registered)
    /\ [][CallStep]_vars
    /\ [][InCall =>
            /\ content' = content
            /\ Remaining(pc', probe', i', Len(Split(content)))
                  < Remaining(pc, probe, i, Len(Split(content)))]_vars
\* a detectAndClean call has returned after three cleaners said no and the
\* fourth read several lines
C27_Witness ==
    /\ pc = "done"
    /\ pass = 1
    /\ probe = Len(Cleaners)
    /\ Len(lines) >= 2
    /\ i = Len(lines) + 1

\* the lists that differ from the constructor's only in the place of Docx
\* among the three specific cleaners
DocxMoved == {<<Docx, DirectPaste, Downloaded, Simple>>,
              <<DirectPaste, Docx, Downloaded, Simple>>,
              <<DirectPaste, Downloaded, Docx, Simple>>}

\* C28: a text that Docx accepts is refused by Direct-paste and by
\* Downloaded, and for every text detect selects the same cleaner wherever
\* Docx stands relative to the two.
C28_DocxExclusive ==
    /\ (Asked(Docx) /\ answer.value) =>
           /\ ~canHandle(DirectPaste, content)
           /\ ~canHandle(Downloaded, content)
    /\ answer.call = "canHandle" =>
           \A order \in DocxMoved : detect(order, content) = detect(Cleaners, content)
\* Docx has accepted a text of two lines, the timestamp on one and the
\* indentation on the other
C28_Witness ==
    /\ Asked(Docx)
    /\ answer.value
    /\ Len(Split(content)) = 2
    /\ ContainsStamp(Split(content)[2])
    /\ HasIndentedLine(Split(content)[1])

\* the lines of the output before the block of entry e: a name, the
\* content lines and a blank line for each earlier entry
RECURSIVE BlocksBefore(_)
BlocksBefore(e) == IF e = 1 THEN 0 ELSE BlocksBefore(e - 1) + Len(origins[e - 1].lines) + 2
\* the input lines that are speech of a speaker: after the first header,
\* not blank, no header and, for Direct-paste, no timestamp line
Speech ==
    {k \in 1..Len(lines) :
        /\ headers # <<>>
        /\ k > headers[1].line
        /\ Trim(lines[k]) # <<>>
        /\ ~IsHeader(k)
        /\ ~(selected = DirectPaste /\ StampLine(Trim(lines[k])))}
\* the line of the last header before line k
HeaderBefore(k) == Max({headers[h].line : h \in {g \in 1..Len(headers) : headers[g].line < k}})
\* the places (entry, content line) of the output that input line k is behind
PlacesOf(k) ==
    {p \in UNION {{<<e, j>> : j \in 1..Len(origins[e].lines)} : e \in 1..Len(origins)} :
        origins[p[1]].lines[p[2]] = k}

\* C29: in the Direct-paste and the Downloaded cleaner every line of speech
\* is behind exactly one content line of the output, which is the line
\* trimmed, under the name of the last header before it, and the content
\* lines of an entry are in the order of the input.
C29_SpeechKept ==
    (pc = "done" /\ selected \in {DirectPaste, Downloaded}) =>
        /\ \A k \in Speech :
               /\ Cardinality(PlacesOf(k)) = 1
               /\ \A p \in PlacesOf(k) :
                      /\ origins[p[1]].hdr = HeaderBefore(k)
                      /\ \E h \in 1..Len(headers) :
                             /\ headers[h].line = HeaderBefore(k)
                             /\ OutLines[BlocksBefore(p[1]) + 1] = headers[h].speaker
                      /\ OutLines[BlocksBefore(p[1]) + 1 + p[2]] = Trim(lines[k])
        /\ \A e \in 1..Len(origins) :
               /\ \A j \in 1..Len(origins[e].lines) : origins[e].lines[j] \in Speech
               /\ \A j \in 2..Len(origins[e].lines) :
                      origins[e].lines[j - 1] < origins[e].lines[j]
\* two speakers, the first with two lines of speech
C29_Witness ==
    /\ pc = "done"
    /\ selected \in {DirectPaste, Downloaded}
    /\ Len(entries) = 2
    /\ Len(origins[1].lines) = 2
    /\ Speech # {}

(***************************************************************************)
(* MeetingProcessorPlugin.processMeeting (src/main.ts:52-91), invoked from *)
(* the ribbon icon and the command.  An invocation runs to its first await *)
(* in one step; at each await other invocations may start.                 *)
(***************************************************************************)
Left(k, how) == [invocations EXCEPT ![k].at = "returned", ![k].exit = how]

\* variant: the processing flag is not looked at
ProcessMeeting_NoGuard ==
    /\ \E k \in 1..MaxInvocations :
           /\ invocations[k].at = "none"
           /\ \A j \in 1..(k - 1) : invocations[j].at # "none"
           /\ \E hasFile \in BOOLEAN :
                  IF ~hasFile
                  THEN /\ invocations' = Left(k, "no file")
                       /\ processing' = FALSE
                  ELSE /\ invocations' = [invocations EXCEPT ![k].at = "validating",
                                                             ![k].validated = TRUE]
                       /\ processing' = TRUE
    /\ UNCHANGED <<frame, calls, answer, other, overlapped, conv, meeting>>

\* main.ts:52-71: the guard, then processing = true, getActiveFile and the
\* call of validateMeetingFile; a return inside try runs finally
ProcessMeeting ==
    /\ \E k \in 1..MaxInvocations :
           /\ invocations[k].at = "none"
           /\ \A j \in 1..(k - 1) : invocations[j].at # "none"
           /\ IF processing
              THEN /\ invocations' = Left(k, "in progress")
                   /\ UNCHANGED processing
              ELSE \E hasFile \in BOOLEAN :
                      IF ~hasFile
                      THEN /\ invocations' = Left(k, "no file")
                           /\ processing' = FALSE
                      ELSE /\ invocations' = [invocations EXCEPT ![k].at = "validating",
                                                                 ![k].validated = TRUE]
                           /\ processing' = TRUE
    /\ UNCHANGED <<frame, calls, answer, other, overlapped, conv, meeting>>

\* main.ts:71-80: validateMeetingFile settles; not valid returns, valid
\* calls router.process, a rejection goes to catch; finally on each exit
Validated ==
    /\ \E k \in 1..MaxInvocations :
           /\ invocations[k].at = "validating"
           /\ \E outcome \in {"valid", "not valid", "rejected"} :
                  IF outcome = "valid"
                  THEN /\ invocations' = [invocations EXCEPT ![k].at = "routing",
                                                             ![k].routed = TRUE]
                       /\ UNCHANGED processing
                  ELSE /\ invocations' = Left(k, IF outcome = "rejected" THEN "error"
                                                 ELSE "not valid")
                       /\ processing' = FALSE
    /\ UNCHANGED <<frame, calls, answer, other, overlapped, conv, meeting>>

\* main.ts:80-90: router.process settles; complete or catch, then finally
Routed ==
    /\ \E k \in 1..MaxInvocations :
           /\ invocations[k].at = "routing"
           /\ \E outcome \in {"complete", "error"} : invocations' = Left(k, outcome)
    /\ processing' = FALSE
    /\ UNCHANGED <<frame, calls, answer, other, overlapped, conv, meeting>>

NextPlugin ==
    \/ ProcessMeeting
    \/ Validated
    \/ Routed

SpecPlugin == Init /\ [][NextPlugin]_vars

\* the invocations that are between processing = true and their exit
InProgress == {k \in 1..MaxInvocations : invocations[k].at \in {"validating", "routing"}}
\* invocation k starts in this step
Enters(k) == invocations[k].at = "none" /\ invocations'[k].at # "none"
\* invocation k leaves in this step
Leaves(k) == invocations[k].at # "returned" /\ invocations'[k].at = "returned"

\* C30: at most one run of processMeeting is in progress; the flag is set
\* exactly while one is; an invocation made while the flag is set returns
\* without validating or routing and leaves the flag set; when a run that
\* set the flag leaves, by whatever exit, the flag is false.
C30_OneRunAtATime ==
    /\ [](Cardinality(InProgress) <= 1)
    /\ [](processing <=> InProgress # {})
    /\ [][\A k \in 1..MaxInvocations :
            /\ (Enters(k) /\ processing) =>
                   /\ invocations'[k] = [at |-> "returned", exit |-> "in progress",
                                          validated |-> FALSE, routed |-> FALSE]
                   /\ processing'
                   /\ \A j \in InProgress : invocations'[j] = invocations[j]
            /\ (Leaves(k) /\ invocations'[k].exit # "in progress") => ~processing'
            /\ (Enters(k) /\ ~processing) => invocations'[k].exit # "in progress"]_vars
\* an invocation was turned away while the first run was in progress, the
\* run ended in an error, and the next invocation is in progress
C30_Witness ==
    /\ invocations[1].exit = "error"
    /\ invocations[1].routed
    /\ invocations[2].exit = "in progress"
    /\ invocations[3].at = "routing"
    /\ processing

=============================================================================
